---------------------------- MODULE Spec2Model ----------------------------
(***************************************************************************)
(* A model of the lagged contextual linkage engine of stitch:              *)
(*   - DailyMeasureData      (src/stitch/daily_measure.py), one year file  *)
(*   - DailyMeasureDataDir   (src/stitch/daily_measure.py), the year cache *)
(*   - process_multiple_lags_batch / process_multiple_lags_parallel /      *)
(*     _process_single_lag_internal / run_pipeline (src/stitch/process.py) *)
(*                                                                         *)
(* Three specifications share the variables:                               *)
(*   SpecDir  : any sequence of dir[year], preload_years and geoid_filter  *)
(*              assignments on one DailyMeasureDataDir                     *)
(*   SpecLoad : one DailyMeasureData construction on a bounded file        *)
(*   Spec     : one run of the lag batch (sequential or thread pool)       *)
(*              followed by the merge of run_pipeline                      *)
(***************************************************************************)
EXTENDS Integers, Sequences, FiniteSets, TLC

VARIABLES
    \* ---- DailyMeasureDataDir ----
    year_to_file,   \* self.year_to_file : year key (str) -> file name
    cache,          \* self._cache       : year key (str) -> DailyMeasureData
    geoid_filter,   \* self.geoid_filter : None or a set of GEOID strings
    ctor_calls,     \* year key -> number of DailyMeasureData objects built for it
    last_call,      \* the last call made on the directory and how it ended
    \* ---- one DailyMeasureData(...) construction ----
    ld_args,        \* the source file and the constructor's arguments
    ld_obj,         \* None before the call; then the object built or the error
    \* ---- one lag batch and the merge of run_pipeline ----
    args,           \* entry point, parallel flag, n_days, resolved max_workers
    pc,             \* position of the main thread
    error,          \* "none", or the exception that ended the run
    years_to_load,  \* the list computed from required and available years
    contextual_df,  \* None, or the wrappers whose tables were concatenated
    task,           \* per position of n_days: state and result of its lag job
    join_result,    \* lag -> what output_merged_columns yields for it
    temp_files,     \* the list of paths being returned
    fs,             \* temp directory: path -> the table written there
    merge_i,        \* number of temp files the merge loop has read
    lag_cols,       \* the lag tables accumulated by the merge loop
    out,            \* None, or the final table written to out_path
    batch_result,   \* None, or how the sequential run of the same input ended
    unreadable,     \* the year keys whose file cannot be materialized in this run
    run_log         \* history of the run: assignments of geoid_filter, calls of
                    \* preload_years, the list process_multiple_lags_* returned

dirVars == <<year_to_file, cache, geoid_filter, ctor_calls, last_call>>
loadVars == <<ld_args, ld_obj>>
runVars == <<args, pc, error, years_to_load, contextual_df, task, join_result,
             temp_files, fs, merge_i, lag_cols, out, batch_result, unreadable,
             run_log>>

vars == <<dirVars, loadVars, runVars>>

(***************************************************************************)
(* Bounds of the model.                                                    *)
(***************************************************************************)
MaxPreload == 2          \* longest list handed to preload_years
MaxRows == 2             \* most rows of a contextual source file
MaxLags == 2             \* largest --n-lags of run_pipeline
MaxWorkers == 2          \* largest resolved max_workers of the thread pool

(***************************************************************************)
(* Values.                                                                 *)
(***************************************************************************)
None == [none |-> TRUE]

\* Python's int and str year arguments: [int |-> 2015] and [str |-> "2015"].
IntArg(y) == [int |-> y]
StrArg(s) == [str |-> s]

\* str(year) of __getitem__
YearKey(year) == IF "int" \in DOMAIN year THEN ToString(year.int) ELSE year.str

\* The calendar years the model knows; 2017 is never a file of the directory.
YearInts == {2015, 2016, 2017}
YearKeys == {ToString(y) : y \in YearInts}
YearArgs == {IntArg(y) : y \in YearInts} \cup {StrArg(k) : k \in YearKeys}

\* GEOIDs are 11-character zero-padded strings (str.zfill(11)).
GeoidWidth == 11

RECURSIVE Zfill(_, _)
Zfill(s, width) == IF Len(s) >= width THEN s ELSE Zfill("0" \o s, width)

GeoidA == Zfill("1", GeoidWidth)
GeoidB == Zfill("2", GeoidWidth)

\* The allow-sets a caller assigns to geoid_filter.
FilterChoices == {None, [set |-> {GeoidA}], [set |-> {GeoidA, GeoidB}]}

FileName(key) == "heat_index_" \o key \o ".csv"

\* Ascending list of the elements of a finite set of integers.
RECURSIVE SortedSeq(_)
SortedSeq(S) ==
    IF S = {} THEN <<>>
    ELSE LET m == CHOOSE x \in S : \A y \in S : x <= y
         IN  <<m>> \o SortedSeq(S \ {m})

\* self.years_available = sorted(self.year_to_file.keys()); the keys are 4-digit
\* strings, whose lexical order is the numeric order.
YearsAvailable(y2f) ==
    LET ints == {y \in YearInts : ToString(y) \in DOMAIN y2f}
        s    == SortedSeq(ints)
    IN  [i \in 1..Len(s) |-> ToString(s[i])]

SeqsUpTo(S, n) == UNION {[1..k -> S] : k \in 0..n}

Range(s) == {s[i] : i \in DOMAIN s}

(***************************************************************************)
(* DailyMeasureData.__init__: reading one long-format source file.         *)
(***************************************************************************)
\* pd.to_datetime(..., errors="coerce") / parse_dates: several spellings of a
\* day parse to the same date, and what cannot be parsed becomes NaT.
ParseDate(raw) ==
    CASE raw = "2016-01-01" -> "2016-01-01"
      [] raw = "1/1/2016"   -> "2016-01-01"
      [] raw = "2016-01-02" -> "2016-01-02"
      [] OTHER              -> "NaT"

RawDates == {"2016-01-01", "1/1/2016", "2016-01-02"}
RawGeoids == {"1", "01", "2"}
RawValues == {1, 2}
RawRows == [date : RawDates, geoid : RawGeoids, value : RawValues]

\* df[geoid_col].astype(str).str.zfill(11) on every row
ZfillGeoids(rows) ==
    [i \in DOMAIN rows |-> [rows[i] EXCEPT !.geoid = Zfill(@, GeoidWidth)]]

\* pd.read_csv is given a dtype for the data columns only, so it infers the
\* type of the GEOID column from the cells of what it reads, a chunk or the
\* whole file: int64 when every cell is a number, float64 when a cell is
\* missing (the empty raw cell "").
InferDtype(rows) ==
    IF \E i \in DOMAIN rows : rows[i].geoid = "" THEN "float64" ELSE "int64"

\* str(int(raw)) for the raw cells of the model
IntText(raw) == IF raw = "01" THEN "1" ELSE raw

\* .astype(str) of a GEOID cell of a column of the given type
AsStr(raw, dtype) ==
    IF dtype = "int64" THEN IntText(raw)
    ELSE IF raw = "" THEN "nan"
    ELSE IntText(raw) \o ".0"

\* the GEOID column of one read_csv result, as text
ReadGeoids(rows) ==
    [i \in DOMAIN rows |->
        [rows[i] EXCEPT !.geoid = AsStr(@, InferDtype(rows))]]

\* pd.to_datetime(df[date_col], errors="coerce") on every row
ParseDates(rows) ==
    [i \in DOMAIN rows |-> [rows[i] EXCEPT !.date = ParseDate(@)]]

\* A plausible slip: the mask is negated, df[~df[geoid_col].isin(...)].
RECURSIVE IsinFilterNegated(_, _)
IsinFilterNegated(rows, flt) ==
    IF rows = <<>> THEN <<>>
    ELSE IF Head(rows).geoid \notin flt.set
         THEN <<Head(rows)>> \o IsinFilterNegated(Tail(rows), flt)
         ELSE IsinFilterNegated(Tail(rows), flt)

\* df[df[geoid_col].isin(geoid_filter)]: the rows kept, in their order
RECURSIVE IsinFilter(_, _)
IsinFilter(rows, flt) ==
    IF rows = <<>> THEN <<>>
    ELSE IF Head(rows).geoid \in flt.set
         THEN <<Head(rows)>> \o IsinFilter(Tail(rows), flt)
         ELSE IsinFilter(Tail(rows), flt)

\* A plausible slip: duplicated() without subset=, so only rows that agree in
\* every column count as duplicates.
CheckUniqueWholeRows(df) ==
    \A i, j \in DOMAIN df : i # j => df[i] # df[j]

\* _check_unique_date_geoid_pairs: TRUE when it returns, FALSE when it raises.
\* An empty table returns at once; duplicated(subset=[date, geoid], keep=False)
\* marks every row whose pair occurs again (NaT equals NaT there).
CheckUniqueDateGeoidPairs(df) ==
    \/ df = <<>>
    \/ \A i, j \in DOMAIN df :
          i # j => ~(df[i].date = df[j].date /\ df[i].geoid = df[j].geoid)

\* pd.read_csv(..., chunksize=n): the rows in consecutive chunks of n rows
RECURSIVE Chunks(_, _)
Chunks(rows, n) ==
    IF rows = <<>> THEN <<>>
    ELSE IF Len(rows) <= n THEN <<rows>>
    ELSE <<SubSeq(rows, 1, n)>> \o Chunks(SubSeq(rows, n + 1, Len(rows)), n)

\* The chunk loop: zero-pad and filter each chunk, keep the non-empty ones,
\* and concatenate them.
RECURSIVE FilterChunks(_, _)
FilterChunks(chunks, flt) ==
    IF chunks = <<>> THEN <<>>
    ELSE IsinFilter(ZfillGeoids(ReadGeoids(Head(chunks))), flt)
            \o FilterChunks(Tail(chunks), flt)

\* The table the constructor assigns to self.df, by load path.
LoadNonCsv(file, flt) ==
    LET df == ZfillGeoids(ParseDates(file.rows))
    IN  IF flt = None THEN df ELSE IsinFilter(df, flt)

LoadCsvChunked(file, flt, chunksize) ==
    ParseDates(FilterChunks(Chunks(file.rows, chunksize), flt))

LoadCsvFull(file, flt) ==
    LET df == ZfillGeoids(ReadGeoids(ParseDates(file.rows)))
    IN  IF flt = None THEN df ELSE IsinFilter(df, flt)

LoadPath(file, flt) ==
    IF file.format # "csv" THEN "non_csv"
    ELSE IF file.shape = "long" /\ flt # None THEN "csv_chunked"
    ELSE "csv_full"

\* The exceptions of pd.read_csv(..., engine="pyarrow") that the except
\* clause of both CSV paths names.
FastEngineCaught == {"ImportError", "ValueError", "TypeError"}

\* try: pd.read_csv(engine="pyarrow") / except (...): pd.read_csv(): "ok" or
\* the exception that leaves the constructor. file.pyarrow and file.c_engine
\* say how each engine ends on this file.
ReadCsv(file) ==
    IF file.pyarrow = "ok" THEN "ok"
    ELSE IF file.pyarrow \in FastEngineCaught THEN file.c_engine
    ELSE file.pyarrow

\* DailyMeasureData(file_path, ..., geoid_filter=flt) from the read on: the
\* object, or the exception that ends the construction. A wide table is
\* melted with value_name=self.data_col, which is a list by then: melt looks
\* the name up among the columns and raises TypeError (unhashable).
Construct(file, flt, chunksize) ==
    LET path == LoadPath(file, flt)
        read == IF path = "non_csv" THEN "ok" ELSE ReadCsv(file)
        df   == CASE path = "non_csv"     -> LoadNonCsv(file, flt)
                  [] path = "csv_chunked" -> LoadCsvChunked(file, flt, chunksize)
                  [] OTHER                -> LoadCsvFull(file, flt)
    IN  IF read # "ok" THEN [status |-> read, path |-> path]
        ELSE IF file.shape = "wide"
        THEN [status |-> "TypeError: unhashable value_name", path |-> path]
        ELSE IF CheckUniqueDateGeoidPairs(df)
        THEN [status |-> "ok", path |-> path, df |-> df, geoid_filter |-> flt]
        ELSE [status |-> "DuplicateKeyError", path |-> path]

\* FILENAME_TO_VARNAME_DICT[measure_type]
MeasureColumn(measure_type) ==
    CASE measure_type = "tmmx"       -> "Tmax"
      [] measure_type = "rmin"       -> "Rmin"
      [] measure_type = "pm25"       -> "pm25"
      [] measure_type = "ozone"      -> "o3"
      [] measure_type = "heat_index" -> "HeatIndex"

\* The header of the long-format files of the model.
FileColumns == {"Date", "GEOID10", "HeatIndex"}

\* self.columns: the header of a file; a wide file has the date column and
\* one column per GEOID.
Header(file) ==
    IF file.shape = "wide" THEN {"Date"} \cup Range(file.geoids) ELSE FileColumns

\* A plausible slip: measure_type, when given, decides the column.
NewDailyMeasureDataPrefersMeasure(data_col, measure_type, file, flt, chunksize) ==
    IF data_col = None /\ measure_type = None
    THEN [status |-> "ValueError: Either data_col or measure_type must be provided",
          read |-> "nothing"]
    ELSE LET cols == IF measure_type # None THEN <<MeasureColumn(measure_type.str)>>
                     ELSE <<data_col.str>>
         IN  IF \E i \in DOMAIN cols : cols[i] \notin Header(file)
             THEN [status |-> "ValueError: Column(s) not found", read |-> "header"]
             ELSE LET r == Construct(file, flt, chunksize)
                  IN  IF r.status = "ok"
                      THEN [status |-> "ok", path |-> r.path, df |-> r.df,
                            geoid_filter |-> flt, data_col |-> cols, read |-> "data"]
                      ELSE [status |-> r.status, path |-> r.path, read |-> "data"]

\* DailyMeasureData.__init__ from its arguments on: data_col from measure_type
\* when it is None, the list form of data_col, the header check, the load.
\* `read` says how far the file was read when the call ended.
NewDailyMeasureData(data_col, measure_type, file, flt, chunksize) ==
    IF data_col = None /\ measure_type = None
    THEN [status |-> "ValueError: Either data_col or measure_type must be provided",
          read |-> "nothing"]
    ELSE LET cols == IF data_col = None THEN <<MeasureColumn(measure_type.str)>>
                     ELSE <<data_col.str>>
         IN  IF \E i \in DOMAIN cols : cols[i] \notin Header(file)
             THEN [status |-> "ValueError: Column(s) not found", read |-> "header"]
             ELSE LET r == Construct(file, flt, chunksize)
                  IN  IF r.status = "ok"
                      THEN [status |-> "ok", path |-> r.path, df |-> r.df,
                            geoid_filter |-> flt, data_col |-> cols, read |-> "data"]
                      ELSE [status |-> r.status, path |-> r.path, read |-> "data"]

\* The data_col and measure_type arguments of the model's calls.
DataColArgs == {None, StrArg("HeatIndex")}
MeasureTypeArgs == {None, StrArg("heat_index"), StrArg("pm25")}

\* The contents of the year files of the model's directories: every file is a
\* long-format CSV with one row for each of two tracts.
YearFile(key) ==
    [format |-> "csv", shape |-> "long", pyarrow |-> "ok", c_engine |-> "ok",
     rows |-> << [date |-> "2016-01-01", geoid |-> "1", value |-> 1],
                 [date |-> "2016-01-02", geoid |-> "2", value |-> 2] >>]

(***************************************************************************)
(* DailyMeasureDataDir.__getitem__                                         *)
(***************************************************************************)
\* A plausible slip: geoid_filter is not handed to the constructor.
NewWrapperUnfiltered(key, file, flt, serial) ==
    [year |-> key, file |-> file, geoid_filter |-> None, serial |-> serial,
     df |-> NewDailyMeasureData(StrArg("HeatIndex"), StrArg("heat_index"),
                                YearFile(key), None, MaxRows).df]

\* The wrapper object built for a year: its identity is (year, serial), its
\* table is read from the year's file with the filter of the moment. The
\* directory hands both its data_col and its measure_type to the constructor.
NewWrapper(key, file, flt, serial) ==
    [year |-> key, file |-> file, geoid_filter |-> flt, serial |-> serial,
     df |-> NewDailyMeasureData(StrArg("HeatIndex"), StrArg("heat_index"),
                                YearFile(key), flt, MaxRows).df]

\* A plausible slip: year_to_file.get(year_key), so that a year without a
\* file goes on as None and fails only inside the constructor.
GetItemNoKeyError(c, calls, flt, y2f, year, loads) ==
    LET key == YearKey(year) IN
    IF key \in DOMAIN c
    THEN [cache |-> c, calls |-> calls, status |-> "ok", result |-> c[key]]
    ELSE IF key \notin DOMAIN y2f \/ ~loads
    THEN [cache |-> c, calls |-> calls, status |-> "LoadError", result |-> None]
    ELSE LET w == NewWrapper(key, y2f[key], flt, calls[key] + 1)
         IN  [cache  |-> [k \in DOMAIN c \cup {key} |-> IF k = key THEN w ELSE c[k]],
              calls  |-> [calls EXCEPT ![key] = @ + 1],
              status |-> "ok", result |-> w]

\* A plausible slip: the cache is not consulted, every access rebuilds.
GetItemNoCacheCheck(c, calls, flt, y2f, year, loads) ==
    LET key == YearKey(year) IN
    IF key \notin DOMAIN y2f
    THEN [cache |-> c, calls |-> calls, status |-> "KeyError", result |-> None]
    ELSE IF ~loads
    THEN [cache |-> c, calls |-> calls, status |-> "LoadError", result |-> None]
    ELSE LET w == NewWrapper(key, y2f[key], flt, calls[key] + 1)
         IN  [cache  |-> [k \in DOMAIN c \cup {key} |-> IF k = key THEN w ELSE c[k]],
              calls  |-> [calls EXCEPT ![key] = @ + 1],
              status |-> "ok", result |-> w]

\* A plausible slip: the cache entry is made before the constructor runs, so a
\* failed load leaves a placeholder behind.
GetItemCachesFailure(c, calls, flt, y2f, year, loads) ==
    LET key == YearKey(year) IN
    IF key \notin DOMAIN y2f
    THEN [cache |-> c, calls |-> calls, status |-> "KeyError", result |-> None]
    ELSE IF key \in DOMAIN c
    THEN [cache |-> c, calls |-> calls, status |-> "ok", result |-> c[key]]
    ELSE IF ~loads
    THEN [cache  |-> [k \in DOMAIN c \cup {key} |-> IF k = key THEN None ELSE c[k]],
          calls  |-> calls, status |-> "LoadError", result |-> None]
    ELSE LET w == NewWrapper(key, y2f[key], flt, calls[key] + 1)
         IN  [cache  |-> [k \in DOMAIN c \cup {key} |-> IF k = key THEN w ELSE c[k]],
              calls  |-> [calls EXCEPT ![key] = @ + 1],
              status |-> "ok", result |-> w]

\* dir[year] on cache c; `loads` says whether DailyMeasureData(...) succeeds
\* should it be called (it raises on a missing column, a duplicate key or an
\* unreadable file).
GetItem(c, calls, flt, y2f, year, loads) ==
    LET key == YearKey(year) IN
    IF key \notin DOMAIN y2f
    THEN [cache |-> c, calls |-> calls, status |-> "KeyError", result |-> None]
    ELSE IF key \in DOMAIN c
    THEN [cache |-> c, calls |-> calls, status |-> "ok", result |-> c[key]]
    ELSE IF ~loads
    THEN [cache |-> c, calls |-> calls, status |-> "LoadError", result |-> None]
    ELSE LET w == NewWrapper(key, y2f[key], flt, calls[key] + 1)
         IN  [cache  |-> [k \in DOMAIN c \cup {key} |-> IF k = key THEN w ELSE c[k]],
              calls  |-> [calls EXCEPT ![key] = @ + 1],
              status |-> "ok", result |-> w]

(***************************************************************************)
(* DailyMeasureDataDir.preload_years                                       *)
(***************************************************************************)
\* `year not in self._cache`: the cache keys are str, so an int never matches.
InCache(year, c) == "str" \in DOMAIN year /\ year.str \in DOMAIN c

\* A plausible slip: the loop skips nothing and stops after the first year.
PreloadFirstOnly(c, calls, flt, y2f, years, loadable) ==
    IF years = <<>>
    THEN [cache |-> c, calls |-> calls, status |-> "returned"]
    ELSE LET r == GetItem(c, calls, flt, y2f, Head(years),
                          loadable[YearKey(Head(years))])
         IN  [cache |-> r.cache, calls |-> r.calls,
              status |-> IF r.status = "ok" THEN "returned" ELSE r.status]

\* The loop of preload_years over `years`; loadable[key] says whether the
\* year's file can be materialized. The first failing access ends the call.
RECURSIVE PreloadYears(_, _, _, _, _, _)
PreloadYears(c, calls, flt, y2f, years, loadable) ==
    IF years = <<>>
    THEN [cache |-> c, calls |-> calls, status |-> "returned"]
    ELSE IF InCache(Head(years), c)
    THEN PreloadYears(c, calls, flt, y2f, Tail(years), loadable)
    ELSE LET r == GetItem(c, calls, flt, y2f, Head(years),
                          loadable[YearKey(Head(years))])
         IN  IF r.status # "ok"
             THEN [cache |-> r.cache, calls |-> r.calls, status |-> r.status]
             ELSE PreloadYears(r.cache, r.calls, flt, y2f, Tail(years), loadable)

\* years=None means self.years_available
PreloadArg(years, y2f) ==
    IF years = None
    THEN LET a == YearsAvailable(y2f) IN [i \in 1..Len(a) |-> StrArg(a[i])]
    ELSE years.list

(***************************************************************************)
(* SpecLoad: one construction on every bounded long-format file.           *)
(***************************************************************************)
LoadIdle == ld_args = None /\ ld_obj = None

RunIdle ==
    /\ args = None
    /\ pc = "idle"
    /\ error = "none"
    /\ years_to_load = <<>>
    /\ contextual_df = None
    /\ task = <<>>
    /\ join_result = <<>>
    /\ temp_files = <<>>
    /\ fs = <<>>
    /\ merge_i = 0
    /\ lag_cols = <<>>
    /\ out = None
    /\ batch_result = None
    /\ unreadable = {}
    /\ run_log = [sets |-> 0, preloads |-> 0, returned |-> <<>>]

DirIdle ==
    /\ year_to_file = <<>>
    /\ cache = <<>>
    /\ geoid_filter = None
    /\ ctor_calls = [k \in YearKeys |-> 0]
    /\ last_call = [op |-> "none"]

LoadInit ==
    /\ \E rows \in SeqsUpTo(RawRows, MaxRows), fmt \in {"csv", "parquet"},
          flt \in FilterChoices, n \in 1..MaxRows,
          data_col \in DataColArgs, measure_type \in MeasureTypeArgs :
          ld_args = [file |-> [format |-> fmt, shape |-> "long", rows |-> rows,
                               pyarrow |-> "ok", c_engine |-> "ok"],
                     geoid_filter |-> flt, chunksize |-> n,
                     data_col |-> data_col, measure_type |-> measure_type]
    /\ ld_obj = None
    /\ DirIdle
    /\ RunIdle

LoadConstruct ==
    /\ ld_obj = None
    /\ ld_obj' = NewDailyMeasureData(ld_args.data_col, ld_args.measure_type,
                                     ld_args.file, ld_args.geoid_filter,
                                     ld_args.chunksize)
    /\ UNCHANGED <<ld_args, dirVars, runVars>>

NextLoad == LoadConstruct

SpecLoad == LoadInit /\ [][NextLoad]_vars

(***************************************************************************)
(* C8: a constructed DailyMeasureData holds no (date, GEOID) pair twice,   *)
(* on every load path; a loaded table with a repeated pair makes the       *)
(* construction fail; rows are never dropped to repair it.                 *)
(***************************************************************************)
\* the rows of the source that the allow-set keeps
KeptRows(rows, flt) ==
    {i \in DOMAIN rows : flt = None \/ Zfill(rows[i].geoid, GeoidWidth) \in flt.set}

\* two kept rows of the source carry the same (date, GEOID) once normalized
SourceRepeatsPair(rows, flt) ==
    \E i, j \in KeptRows(rows, flt) :
        /\ i # j
        /\ ParseDate(rows[i].date) = ParseDate(rows[j].date)
        /\ Zfill(rows[i].geoid, GeoidWidth) = Zfill(rows[j].geoid, GeoidWidth)

C8_UniquePairs ==
    ld_obj # None =>
        /\ ld_obj.status = "ok" =>
              /\ \A i, j \in DOMAIN ld_obj.df :
                    (ld_obj.df[i].date = ld_obj.df[j].date
                        /\ ld_obj.df[i].geoid = ld_obj.df[j].geoid) => i = j
              /\ Len(ld_obj.df)
                    = Cardinality(KeptRows(ld_args.file.rows, ld_args.geoid_filter))
        /\ SourceRepeatsPair(ld_args.file.rows, ld_args.geoid_filter)
              => /\ ld_obj.status # "ok"
                 /\ ld_obj.read = "data" => ld_obj.status = "DuplicateKeyError"

\* a chunked read whose two kept rows, in different chunks, repeat a pair
\* under different spellings, was rejected
C8_Witness ==
    /\ ld_obj # None
    /\ ld_obj.status = "DuplicateKeyError"
    /\ ld_obj.path = "csv_chunked"
    /\ ld_args.chunksize = 1
    /\ Len(ld_args.file.rows) = 2
    /\ ld_args.file.rows[1].geoid # ld_args.file.rows[2].geoid
    /\ ld_args.file.rows[1].value # ld_args.file.rows[2].value

(***************************************************************************)
(* C16: DailyMeasureData construction and its data_col / measure_type      *)
(* arguments. As claimed, exactly one must be given: C16_ExactlyOne. As    *)
(* amended, at least one, data_col deciding when both are given:           *)
(* C16_AtLeastOne.                                                         *)
(***************************************************************************)
NeitherGiven == ld_args.data_col = None /\ ld_args.measure_type = None
BothGiven == ld_args.data_col # None /\ ld_args.measure_type # None

FailedBeforeAnyRead ==
    /\ ld_obj.status = "ValueError: Either data_col or measure_type must be provided"
    /\ ld_obj.read = "nothing"

C16_ExactlyOne ==
    (ld_obj # None /\ (NeitherGiven \/ BothGiven)) => FailedBeforeAnyRead

C16_AtLeastOne ==
    ld_obj # None =>
        /\ NeitherGiven => FailedBeforeAnyRead
        /\ ~NeitherGiven => ld_obj.read # "nothing"
        /\ BothGiven =>
              ld_obj = NewDailyMeasureData(ld_args.data_col, None, ld_args.file,
                                           ld_args.geoid_filter, ld_args.chunksize)

\* a call with data_col and with a measure_type that names another column
\* built an object on data_col
C16_Witness ==
    /\ ld_obj # None
    /\ BothGiven
    /\ ld_obj.status = "ok"
    /\ <<MeasureColumn(ld_args.measure_type.str)>> # ld_obj.data_col
    /\ Len(ld_obj.df) = 2

(***************************************************************************)
(* C19: a wrapper loaded with an allow-set holds only GEOIDs of the set,   *)
(* and each of its rows is a row, with the same values, of the table the   *)
(* same file gives without an allow-set.                                   *)
(***************************************************************************)
\* the table of the file when no allow-set is given
UnfilteredTable(file) ==
    IF file.format = "csv" THEN LoadCsvFull(file, None) ELSE LoadNonCsv(file, None)

WideGeoids == <<"001", "002">>
WideRows == [date : RawDates, cells : [DOMAIN WideGeoids -> RawValues]]
WideDataColArgs == DataColArgs \cup {StrArg("001")}

WideInit ==
    /\ \E rows \in [1..2 -> WideRows], fmt \in {"csv", "parquet"},
          flt \in FilterChoices,
          data_col \in WideDataColArgs, measure_type \in MeasureTypeArgs :
          ld_args = [file |-> [format |-> fmt, shape |-> "wide", rows |-> rows,
                               geoids |-> WideGeoids,
                               pyarrow |-> "ok", c_engine |-> "ok"],
                     geoid_filter |-> flt, chunksize |-> MaxRows,
                     data_col |-> data_col, measure_type |-> measure_type]
    /\ ld_obj = None
    /\ DirIdle
    /\ RunIdle

SpecWide == WideInit /\ [][NextLoad]_vars

(***************************************************************************)
(* C22: a DailyMeasureData built from a wide source with the columns       *)
(* Date, "001", "002" and two date rows is constructed and holds the four  *)
(* long rows of the unpivot: one per (date, GEOID column), the value that  *)
(* of the original cell.                                                   *)
(***************************************************************************)
\* df.melt(id_vars=[date]): column after column, the rows in their order
MeltedRows(file) ==
    LET n == Len(file.rows)
    IN  [k \in 1..(n * Len(file.geoids)) |->
            LET c == ((k - 1) \div n) + 1
                r == ((k - 1) % n) + 1
            IN  [date  |-> file.rows[r].date,
                 geoid |-> file.geoids[c],
                 value |-> file.rows[r].cells[c]]]

C22_WideReshaped ==
    (/\ ld_obj # None
     /\ ld_args.file.shape = "wide"
     /\ ~NeitherGiven) =>
        /\ ld_obj.status = "ok"
        /\ LET long == ZfillGeoids(ParseDates(MeltedRows(ld_args.file)))
           IN  ld_obj.df = IF ld_args.geoid_filter = None THEN long
                           ELSE IsinFilter(long, ld_args.geoid_filter)

(***************************************************************************)
(* SpecEngine: one construction on a long-format CSV file, for every way   *)
(* the two CSV engines can end on it.                                      *)
(***************************************************************************)
\* How pd.read_csv(engine="pyarrow") ends: it returns, pyarrow is not
\* installed, an argument is not supported (ValueError, TypeError), or the
\* engine raises one of its other exceptions (ArrowNotImplementedError is a
\* NotImplementedError, an I/O failure an OSError).
PyarrowOutcomes ==
    {"ok", "ImportError", "ValueError", "TypeError", "NotImplementedError", "OSError"}

\* How the default engine ends.
DefaultOutcomes == {"ok", "ParserError"}

EngineInit ==
    /\ \E rows \in SeqsUpTo(RawRows, MaxRows), flt \in FilterChoices,
          fast \in PyarrowOutcomes, slow \in DefaultOutcomes :
          ld_args = [file |-> [format |-> "csv", shape |-> "long", rows |-> rows,
                               pyarrow |-> fast, c_engine |-> slow],
                     geoid_filter |-> flt, chunksize |-> MaxRows,
                     data_col |-> StrArg("HeatIndex"), measure_type |-> None]
    /\ ld_obj = None
    /\ DirIdle
    /\ RunIdle

SpecEngine == EngineInit /\ [][NextLoad]_vars

(***************************************************************************)
(* C26: when the pyarrow CSV engine fails, for whatever reason, the read   *)
(* is retried with the default engine, and the construction succeeds       *)
(* whenever the default engine can read the file: the failure of the fast  *)
(* engine alone never reaches the caller.                                  *)
(***************************************************************************)
FastEngineFailed == ld_args.file.pyarrow # "ok"

C26_FastEngineFallback ==
    (/\ ld_obj # None
     /\ FastEngineFailed
     /\ ld_args.file.c_engine = "ok") =>
        /\ ld_obj.status \in {"ok", "DuplicateKeyError"}
        /\ ld_obj.status # ld_args.file.pyarrow

(***************************************************************************)
(* SpecChunk: one construction on a long-format CSV file with an           *)
(* allow-set, so by the chunked read, for every chunk size; a GEOID cell   *)
(* may be missing.                                                         *)
(***************************************************************************)
ChunkRawRows == [date : {"2016-01-01", "2016-01-02"}, geoid : RawGeoids \cup {""},
                 value : {1}]

ChunkInit ==
    /\ \E rows \in SeqsUpTo(ChunkRawRows, MaxRows),
          flt \in FilterChoices \ {None}, n \in 1..MaxRows :
          ld_args = [file |-> [format |-> "csv", shape |-> "long", rows |-> rows,
                               pyarrow |-> "ok", c_engine |-> "ok"],
                     geoid_filter |-> flt, chunksize |-> n,
                     data_col |-> StrArg("HeatIndex"), measure_type |-> None]
    /\ ld_obj = None
    /\ DirIdle
    /\ RunIdle

SpecChunk == ChunkInit /\ [][NextLoad]_vars

(***************************************************************************)
(* C29: for a long-format CSV and any allow-set, the chunked filtered read *)
(* (filter each chunk, concatenate, check uniqueness) gives the same rows  *)
(* in the same order, and the same outcome of the duplicate check, as      *)
(* reading the whole file, normalizing and then filtering, for every split *)
(* of the rows into chunks.                                                *)
(***************************************************************************)
WholeFileTable == LoadCsvFull(ld_args.file, ld_args.geoid_filter)

C29_ChunkedEqualsWhole ==
    (ld_obj # None /\ ld_obj.read = "data" /\ ld_obj.path = "csv_chunked") =>
        /\ ld_obj.status = "ok" <=> CheckUniqueDateGeoidPairs(WholeFileTable)
        /\ ld_obj.status = "ok" => ld_obj.df = WholeFileTable

(***************************************************************************)
(* The survey table and the helpers of process.py.                         *)
(***************************************************************************)
\* The survey table (hrs_data.df): one row per subject. Dates are counted in
\* days from 2015-01-01 (day 0), so 365 is 2016-01-01.
Survey ==
    << [id |-> 101, date |-> 365, geoid |-> GeoidA],
       [id |-> 102, date |-> 366, geoid |-> GeoidB] >>

SurveyIds == [i \in DOMAIN Survey |-> Survey[i].id]

MeasureType == "heat_index"

IsLeap(y) == y % 4 = 0 /\ (y % 100 # 0 \/ y % 400 = 0)
DaysInYear(y) == IF IsLeap(y) THEN 366 ELSE 365

\* Timestamp.year of the day d counted from 1 January of year y
RECURSIVE YearFrom(_, _)
YearFrom(y, d) ==
    IF d < 0 THEN YearFrom(y - 1, d + DaysInYear(y - 1))
    ELSE IF d >= DaysInYear(y) THEN YearFrom(y + 1, d - DaysInYear(y))
    ELSE y

YearOf(d) == YearFrom(2015, d)

MinOf(S) == CHOOSE x \in S : \A y \in S : x <= y
MaxOf(S) == CHOOSE x \in S : \A y \in S : y <= x

\* A plausible slip: the lag is not subtracted from the earliest date.
ComputeRequiredYearsNoLag(survey, max_lag_days) ==
    LET dates    == {survey[i].date : i \in DOMAIN survey}
        min_year == YearOf(MinOf(dates))
        max_year == YearOf(MaxOf(dates))
    IN  [i \in 1..(max_year - min_year + 1) |-> min_year + i - 1]

\* compute_required_years: range(min_date.year, max_date.year + 1)
ComputeRequiredYears(survey, max_lag_days) ==
    LET dates    == {survey[i].date : i \in DOMAIN survey}
        min_year == YearOf(MinOf(dates) - max_lag_days)
        max_year == YearOf(MaxOf(dates))
    IN  [i \in 1..(max_year - min_year + 1) |-> min_year + i - 1]

\* extract_unique_geoids over the lagged GEOID columns; without a residential
\* history every lag column repeats the survey's GEOID column.
ExtractUniqueGeoids(survey) == {survey[i].geoid : i \in DOMAIN survey}

\* A plausible slip: every available year is loaded, whatever is required.
YearsToLoadAll(required, y2f) == YearsAvailable(y2f)

\* [str(y) for y in required_years if str(y) in available_years]
YearsToLoad(required, y2f) ==
    LET keys == [i \in DOMAIN required |-> ToString(required[i])]
        Available(k) == k \in DOMAIN y2f
    IN  SelectSeq(keys, Available)

\* f"{n:04d}": the decimal digits of n, zero-padded to at least four
RECURSIVE Digits(_)
Digits(n) == IF n < 10 THEN <<n>> ELSE Digits(n \div 10) \o <<n % 10>>

RECURSIVE PadLeft(_, _)
PadLeft(ds, width) == IF Len(ds) >= width THEN ds ELSE PadLeft(<<0>> \o ds, width)

Format04d(n) == PadLeft(Digits(n), 4)

\* A plausible slip: the lag number is left out of the file name.
TempFileUnnumbered(prefix, n, file_format) ==
    [prefix |-> prefix, lag |-> Format04d(0), ext |-> file_format]

\* temp_dir / f"{prefix}_lag_{n:04d}.{file_format}"
TempFile(prefix, n, file_format) ==
    [prefix |-> prefix, lag |-> Format04d(n), ext |-> file_format]

\* int(f.stem.split("_lag_")[1])
RECURSIVE ParseInt(_)
ParseInt(ds) ==
    IF ds = <<>> THEN 0
    ELSE ParseInt(SubSeq(ds, 1, Len(ds) - 1)) * 10 + ds[Len(ds)]

LagOfFile(f) == ParseInt(f.lag)

\* A plausible slip: the sort is left out, the files stay as returned.
SortByLagMissing(files) == files

\* list.sort(key=lag number): a stable insertion into ascending order
RECURSIVE InsertByLag(_, _)
InsertByLag(f, sorted) ==
    IF sorted = <<>> THEN <<f>>
    ELSE IF LagOfFile(f) < LagOfFile(Head(sorted)) THEN <<f>> \o sorted
    ELSE <<Head(sorted)>> \o InsertByLag(f, Tail(sorted))

RECURSIVE SortByLag(_)
SortByLag(files) ==
    IF files = <<>> THEN <<>>
    ELSE InsertByLag(files[Len(files)], SortByLag(SubSeq(files, 1, Len(files) - 1)))

\* The files of the current measure type, sorted by lag (run_pipeline).
FilesToMerge(files, measure_type) ==
    LET Mine(f) == f.prefix = measure_type
    IN  SortByLag(SelectSeq(files, Mine))

\* What HRSContextLinker.output_merged_columns can yield for a lag: an
\* exception, a table with the id column only, or a table with value columns
\* whose id column has one row per survey row (aligned, reordered or altered).
IdColumns == {SurveyIds, <<102, 101>>, <<101, 103>>}

JoinOutcomes ==
    {[kind |-> "raise"], [kind |-> "no_values"]}
        \cup {[kind |-> "values", ids |-> c] : c \in IdColumns}

\* A plausible slip: the skip of a table without value columns is missing.
SingleLagResultNoSkip(outcome, prefix, n) ==
    IF outcome.kind = "raise" THEN None ELSE TempFile(prefix, n, "parquet")

\* A plausible slip: the path of the written file is not returned.
SingleLagResultNoReturn(outcome, prefix, n) == None

\* The value _process_single_lag_internal returns for lag n: None when the
\* join raised (caught by its try/except) or produced no value column, else
\* the path it wrote.
SingleLagResult(outcome, prefix, n) ==
    IF outcome.kind = "values" THEN TempFile(prefix, n, "parquet") ELSE None

\* A plausible slip: .any() in place of .all().
IdsAlignedAny(survey_ids, lag_ids) ==
    \E i \in DOMAIN survey_ids : survey_ids[i] = lag_ids[i]

\* (final_df[id_col].values == lag_df[id_col].values).all() on columns of
\* the same length
IdsAligned(survey_ids, lag_ids) ==
    \A i \in DOMAIN survey_ids : survey_ids[i] = lag_ids[i]

(***************************************************************************)
(* SpecYears: compute_required_years on bounded survey dates and lags.     *)
(***************************************************************************)
\* Survey dates, in days from 2015-01-01: 2015-01-01, 2015-12-31, 2016-01-01,
\* 2016-06-28 (day 179 of 2016), 2016-12-31, 2017-01-01, 2020-12-31.
DaySamples == {0, 364, 365, 544, 730, 731, 2191}

\* max_lag_days: none, one day, 180 days, one year and more, two years and more
LagSamples == {0, 1, 180, 366, 800}

YearsInit ==
    /\ \E a \in DaySamples, b \in DaySamples, lag \in LagSamples :
          ld_args = [survey |-> <<[date |-> a], [date |-> b]>>, max_lag_days |-> lag]
    /\ ld_obj = None
    /\ DirIdle
    /\ RunIdle

YearsCompute ==
    /\ ld_obj = None
    /\ ld_obj' = [years |-> ComputeRequiredYears(ld_args.survey, ld_args.max_lag_days)]
    /\ UNCHANGED <<ld_args, dirVars, runVars>>

NextYears == YearsCompute

SpecYears == YearsInit /\ [][NextYears]_vars

(***************************************************************************)
(* C18: compute_required_years returns the contiguous ascending list of    *)
(* the calendar years from the year of (earliest survey date minus         *)
(* max_lag_days) to the year of the latest survey date; for dates from     *)
(* 2016-01-01 to 2020-12-31 and a lag of 180 days, 2015 through 2020.      *)
(***************************************************************************)
\* the day number of 1 January of year y
RECURSIVE DayOfJan1(_)
DayOfJan1(y) ==
    IF y = 2015 THEN 0
    ELSE IF y > 2015 THEN DayOfJan1(y - 1) + DaysInYear(y - 1)
    ELSE DayOfJan1(y + 1) - DaysInYear(y)

\* day d falls in calendar year y
InYear(d, y) == DayOfJan1(y) <= d /\ d < DayOfJan1(y + 1)

C18_RequiredYears ==
    ld_obj # None =>
        LET r     == ld_obj.years
            dates == {ld_args.survey[i].date : i \in DOMAIN ld_args.survey}
            first == CHOOSE d \in dates : \A e \in dates : d <= e
            last  == CHOOSE d \in dates : \A e \in dates : e <= d
        IN  /\ r # <<>>
            /\ InYear(first - ld_args.max_lag_days, r[1])
            /\ InYear(last, r[Len(r)])
            /\ \A i \in 1..(Len(r) - 1) : r[i + 1] = r[i] + 1
            /\ (first = 365 /\ last = 2191 /\ ld_args.max_lag_days = 180)
                  => r = <<2015, 2016, 2017, 2018, 2019, 2020>>

\* the example: dates from 2016-01-01 to 2020-12-31, a lag of 180 days
C18_Witness ==
    /\ ld_obj # None
    /\ ld_args = [survey |-> <<[date |-> 365], [date |-> 2191]>>, max_lag_days |-> 180]
    /\ Len(ld_obj.years) = 6

(***************************************************************************)
(* SpecWorkers: the worker count of process_multiple_lags_parallel.        *)
(* Memory is counted in hundredths of a GiB, available memory is given in  *)
(* tenths of a GiB so that 70% of it is a whole number of hundredths.      *)
(***************************************************************************)
GbPerWorker == 2         \* gb_per_worker = 2.0
SafetyPercent == 70      \* available_gb * 0.7

MinInt(a, b) == IF a <= b THEN a ELSE b
MaxInt(a, b) == IF a >= b THEN a ELSE b

\* int(x / y) for y > 0: truncation towards zero
IntDiv(x, y) == IF x >= 0 THEN x \div y ELSE -((-x) \div y)

\* A plausible slip: no branch for scarce memory and no lower clamp.
ResolveMaxWorkersNoFloor(max_workers, auto, psutil, avail, shared, cpu_count) ==
    IF max_workers # None \/ ~auto THEN max_workers
    ELSE IF psutil # "ok" THEN None
    ELSE LET usable == (SafetyPercent * avail) \div 10 - shared
             by_cpu == IF cpu_count = None \/ cpu_count = IntArg(0) THEN 1
                       ELSE cpu_count.int
         IN  IntArg(MinInt(IntDiv(usable, GbPerWorker * 100), by_cpu))

\* The value of max_workers handed to ThreadPoolExecutor: IntArg(n), or None
\* for the executor's default. avail is the available memory in tenths of a
\* GiB, shared the size of the shared tables in hundredths. psutil is "ok",
\* "ImportError" or "Exception" (what importing and querying it does);
\* cpu_count is os.cpu_count(): None or a count.
ResolveMaxWorkers(max_workers, auto, psutil, avail, shared, cpu_count) ==
    IF max_workers # None \/ ~auto THEN max_workers
    ELSE IF psutil # "ok" THEN None
    ELSE LET usable == (SafetyPercent * avail) \div 10 - shared
             by_cpu == IF cpu_count = None \/ cpu_count = IntArg(0) THEN 1
                       ELSE cpu_count.int
         IN  IF usable > GbPerWorker * 100
             THEN IntArg(MaxInt(1, MinInt(IntDiv(usable, GbPerWorker * 100), by_cpu)))
             ELSE IntArg(1)

\* Available memory: none, 1, 3, 4, 10 and 32 GiB.
AvailableSamples == {0, 10, 30, 40, 100, 320}

\* Size of the shared tables: none, 0.1, 0.8, 2.1, 5 and 10 GiB.
SharedSamples == {0, 10, 80, 210, 500, 1000}

CpuCounts == {None, IntArg(1), IntArg(4), IntArg(8)}

MaxWorkersArgs == {None, IntArg(1), IntArg(3)}

WorkersInit ==
    /\ \E mw \in MaxWorkersArgs, auto \in BOOLEAN,
          psutil \in {"ok", "ImportError", "Exception"},
          a \in AvailableSamples, sh \in SharedSamples, cpu \in CpuCounts :
          ld_args = [max_workers |-> mw, auto_memory_limit |-> auto, psutil |-> psutil,
                     available_tenths |-> a, shared_hundredths |-> sh,
                     cpu_count |-> cpu]
    /\ ld_obj = None
    /\ DirIdle
    /\ RunIdle

WorkersResolve ==
    /\ ld_obj = None
    /\ ld_obj' = [max_workers |->
                     ResolveMaxWorkers(ld_args.max_workers, ld_args.auto_memory_limit,
                                       ld_args.psutil, ld_args.available_tenths,
                                       ld_args.shared_hundredths, ld_args.cpu_count)]
    /\ UNCHANGED <<ld_args, dirVars, runVars>>

NextWorkers == WorkersResolve

SpecWorkers == WorkersInit /\ [][NextWorkers]_vars

(***************************************************************************)
(* C20: the worker count is the caller's max_workers when one is given;    *)
(* otherwise, with auto_memory_limit, floor((0.7 x available - shared) /   *)
(* 2 GiB) clamped to [1, cpu count]; the executor's default when memory    *)
(* introspection fails. The memory-derived count is within [1, cpu count]  *)
(* also when the remainder is zero or negative.                            *)
(***************************************************************************)
\* 0.7 x available - shared, in hundredths of a GiB
Remainder == 7 * ld_args.available_tenths - ld_args.shared_hundredths

\* the cpu count, 1 when the system does not tell
CpuCount == IF ld_args.cpu_count = None THEN 1 ELSE ld_args.cpu_count.int

Clamp(x, lo, hi) == IF x < lo THEN lo ELSE IF x > hi THEN hi ELSE x

C20_WorkerCount ==
    ld_obj # None =>
        /\ ld_args.max_workers # None => ld_obj.max_workers = ld_args.max_workers
        /\ (ld_args.max_workers = None /\ ld_args.auto_memory_limit) =>
              IF ld_args.psutil = "ok"
              THEN /\ ld_obj.max_workers # None
                   /\ ld_obj.max_workers.int = Clamp(Remainder \div 200, 1, CpuCount)
                   /\ 1 <= ld_obj.max_workers.int
                   /\ ld_obj.max_workers.int <= CpuCount
              ELSE ld_obj.max_workers = None

\* the count was derived from memory although the shared tables are larger
\* than 70% of the available memory
C20_Witness ==
    /\ ld_obj # None
    /\ ld_args.max_workers = None
    /\ ld_args.auto_memory_limit
    /\ ld_args.psutil = "ok"
    /\ Remainder < 0
    /\ ld_obj.max_workers = IntArg(1)

(***************************************************************************)
(* SpecDir: the directory under any sequence of calls.                     *)
(***************************************************************************)
\* The directories of SpecDir: one file per year of a non-empty subset of
\* 2015 and 2016.
DirYearSets == {{"2015"}, {"2016"}, {"2015", "2016"}}

NoCall == [op |-> "none"]

\* DailyMeasureDataDir.__init__: the cache starts empty.
DirInit ==
    /\ \E ys \in DirYearSets : year_to_file = [k \in ys |-> FileName(k)]
    /\ cache = <<>>
    /\ geoid_filter \in FilterChoices
    /\ ctor_calls = [k \in YearKeys |-> 0]
    /\ last_call = NoCall
    /\ LoadIdle
    /\ RunIdle

\* wrapper = dir[year]
DirGetItem ==
    \E year \in YearArgs, loads \in BOOLEAN :
        LET r == GetItem(cache, ctor_calls, geoid_filter, year_to_file, year, loads)
        IN  /\ cache' = r.cache
            /\ ctor_calls' = r.calls
            /\ last_call' = [op |-> "getitem", year |-> year, status |-> r.status,
                             result |-> r.result, pre |-> DOMAIN cache]
            /\ UNCHANGED <<year_to_file, geoid_filter, loadVars, runVars>>

\* dir.preload_years(years)
DirPreload ==
    \E years \in {None} \cup {[list |-> s] :
                        s \in SeqsUpTo({StrArg(k) : k \in YearKeys}, MaxPreload)},
       loadable \in [YearKeys -> BOOLEAN] :
        LET r == PreloadYears(cache, ctor_calls, geoid_filter, year_to_file,
                              PreloadArg(years, year_to_file), loadable)
        IN  /\ cache' = r.cache
            /\ ctor_calls' = r.calls
            /\ last_call' = [op |-> "preload",
                             years |-> PreloadArg(years, year_to_file),
                             status |-> r.status, pre |-> DOMAIN cache]
            /\ UNCHANGED <<year_to_file, geoid_filter, loadVars, runVars>>

\* A plausible slip: a setter that refilters the wrappers already cached.
DirSetFilterRefilters ==
    \E flt \in FilterChoices :
        /\ geoid_filter' = flt
        /\ cache' = [k \in DOMAIN cache |->
                        NewWrapper(k, cache[k].file, flt, cache[k].serial)]
        /\ last_call' = [op |-> "setfilter", pre |-> DOMAIN cache]
        /\ UNCHANGED <<year_to_file, ctor_calls, loadVars, runVars>>

\* dir.geoid_filter = flt
DirSetFilter ==
    \E flt \in FilterChoices :
        /\ geoid_filter' = flt
        /\ last_call' = [op |-> "setfilter", pre |-> DOMAIN cache]
        /\ UNCHANGED <<year_to_file, cache, ctor_calls, loadVars, runVars>>

NextDir == DirGetItem \/ DirPreload \/ DirSetFilter

SpecDir == DirInit /\ [][NextDir]_vars

(***************************************************************************)
(* C9: each year's file is materialized at most once, and a get for a      *)
(* year already in the cache returns the cached wrapper without building   *)
(* a new one.                                                              *)
(***************************************************************************)
MaterializedAtMostOnce ==
    /\ \A k \in YearKeys : ctor_calls[k] <= 1
    /\ \A k \in DOMAIN cache : cache[k].serial = 1 /\ ctor_calls[k] = 1

CachedGetReturnsCached ==
    (/\ last_call'.op = "getitem"
     /\ YearKey(last_call'.year) \in DOMAIN cache)
    => /\ last_call'.status = "ok"
       /\ last_call'.result = cache[YearKey(last_call'.year)]
       /\ cache' = cache
       /\ ctor_calls' = ctor_calls

C9_MaterializedOnce == []MaterializedAtMostOnce /\ [][CachedGetReturnsCached]_vars

\* a get hit the cache: the year was cached before the call
C9_Witness ==
    /\ last_call.op = "getitem"
    /\ last_call.status = "ok"
    /\ YearKey(last_call.year) \in last_call.pre

(***************************************************************************)
(* C10: when preload_years returns normally every requested year is in    *)
(* the cache and every wrapper cached before the call is the same object. *)
(***************************************************************************)
PreloadPostcondition ==
    (last_call'.op = "preload" /\ last_call'.status = "returned")
    => /\ \A i \in DOMAIN last_call'.years :
            YearKey(last_call'.years[i]) \in DOMAIN cache'
       /\ \A k \in DOMAIN cache : k \in DOMAIN cache' /\ cache'[k] = cache[k]

C10_PreloadCachesAll == [][PreloadPostcondition]_vars

\* a preload returned having found one year cached and loaded another
C10_Witness ==
    /\ last_call.op = "preload"
    /\ last_call.status = "returned"
    /\ last_call.pre # {}
    /\ last_call.pre # DOMAIN cache
    /\ \E i \in DOMAIN last_call.years : YearKey(last_call.years[i]) \in last_call.pre

(***************************************************************************)
(* C11: assigning a new geoid_filter leaves every cached wrapper and its   *)
(* rows unchanged; a wrapper materialized afterwards is filtered with the  *)
(* set assigned last.                                                      *)
(***************************************************************************)
\* the table a year's file gives under allow-set flt
FilteredTable(key, flt) ==
    LET all == ZfillGeoids(ParseDates(YearFile(key).rows))
    IN  IF flt = None THEN all ELSE IsinFilter(all, flt)

SetFilterKeepsCache ==
    /\ last_call'.op = "setfilter" => cache' = cache
    /\ \A k \in DOMAIN cache : k \in DOMAIN cache' /\ cache'[k] = cache[k]
    /\ \A k \in DOMAIN cache' \ DOMAIN cache :
          /\ cache'[k].geoid_filter = geoid_filter
          /\ cache'[k].df = FilteredTable(k, geoid_filter)

C11_FilterNotRetroactive == [][SetFilterKeepsCache]_vars

\* a filter was assigned while a wrapper loaded under another filter, with
\* other rows than the new filter would give, was cached
C11_Witness ==
    /\ last_call.op = "setfilter"
    /\ \E k \in DOMAIN cache :
          /\ cache[k].geoid_filter # geoid_filter
          /\ cache[k].df # FilteredTable(k, geoid_filter)

(***************************************************************************)
(* C15: dir[year] for a year that is no key of the year-to-file map fails  *)
(* with KeyError and leaves the cache as it was, for int and str           *)
(* arguments alike; the cached years are always among the mapped years.    *)
(***************************************************************************)
CachedYearsAreMapped == DOMAIN cache \subseteq DOMAIN year_to_file

UnmappedGetRaisesKeyError ==
    (/\ last_call'.op = "getitem"
     /\ YearKey(last_call'.year) \notin DOMAIN year_to_file)
    => /\ last_call'.status = "KeyError"
       /\ cache' = cache
       /\ ctor_calls' = ctor_calls

FailedGet == last_call'.op = "getitem" /\ last_call'.status = "LoadError"
FailedPreload == last_call'.op = "preload" /\ last_call'.status = "LoadError"

\* a get of a mapped, uncached year runs the constructor: it is not refused
\* on account of an earlier failure
GetOfUncachedLoads ==
    (/\ last_call'.op = "getitem"
     /\ YearKey(last_call'.year) \in DOMAIN year_to_file
     /\ YearKey(last_call'.year) \notin DOMAIN cache) =>
        \/ last_call'.status = "LoadError"
        \/ /\ last_call'.status = "ok"
           /\ YearKey(last_call'.year) \in DOMAIN cache'
           /\ ctor_calls'[YearKey(last_call'.year)]
                 = ctor_calls[YearKey(last_call'.year)] + 1

C28_FailedLoadLeavesCache ==
    [][/\ FailedGet =>
            /\ cache' = cache
            /\ YearKey(last_call'.year) \notin DOMAIN cache'
       /\ FailedPreload =>
            /\ \A k \in DOMAIN cache : k \in DOMAIN cache' /\ cache'[k] = cache[k]
            /\ \E j \in DOMAIN last_call'.years :
                  /\ YearKey(last_call'.years[j]) \notin DOMAIN cache'
                  /\ \A i \in 1..(j - 1) :
                        YearKey(last_call'.years[i]) \in DOMAIN cache'
       /\ GetOfUncachedLoads
      ]_vars

\* preload_years(["2015", "2016"]) on an empty cache loaded 2015 and failed
\* on 2016: 2015 is cached, 2016 is not
C28_Witness ==
    /\ last_call.op = "preload"
    /\ last_call.status = "LoadError"
    /\ last_call.years = <<StrArg("2015"), StrArg("2016")>>
    /\ last_call.pre = {}
    /\ DOMAIN cache = {"2015"}

(***************************************************************************)
(* SpecCtor: DailyMeasureDataDir.__init__ on every bounded directory.      *)
(***************************************************************************)
MaxFiles == 2            \* most candidate files of a directory

\* File names are sequences of characters.
DigitChars == {"0", "1", "2", "5", "6", "7"}

\* heat_2015, heat_2016, x_2015 (2015 again), heat_15 (no 4-digit run),
\* 2015_2016 (two runs) and a name with a 5-digit run.
NameHeat2015 == <<"h", "_", "2", "0", "1", "5">>
NameHeat2016 == <<"h", "_", "2", "0", "1", "6">>
NameOther2015 == <<"x", "_", "2", "0", "1", "5">>
NameNoYear == <<"h", "_", "1", "5">>
NameTwoYears == <<"2", "0", "1", "5", "_", "2", "0", "1", "6">>
NameFiveDigits == <<"h", "_", "2", "0", "1", "5", "7">>

CandidateNames ==
    {NameHeat2015, NameHeat2016, NameOther2015, NameNoYear, NameTwoYears,
     NameFiveDigits}

\* Code points, for the order of sorted(...) on the paths.
CharCode(c) ==
    CASE c = "0" -> 48 [] c = "1" -> 49 [] c = "2" -> 50 [] c = "5" -> 53
      [] c = "6" -> 54 [] c = "7" -> 55 [] c = "_" -> 95 [] c = "h" -> 104
      [] OTHER -> 120

RECURSIVE NameLess(_, _)
NameLess(a, b) ==
    IF a = <<>> THEN b # <<>>
    ELSE IF b = <<>> THEN FALSE
    ELSE IF CharCode(Head(a)) # CharCode(Head(b))
         THEN CharCode(Head(a)) < CharCode(Head(b))
         ELSE NameLess(Tail(a), Tail(b))

\* self.files = sorted(...)
RECURSIVE SortedFiles(_)
SortedFiles(S) ==
    IF S = {} THEN <<>>
    ELSE LET m == CHOOSE x \in S : \A y \in S \ {x} : NameLess(x, y)
         IN  <<m>> \o SortedFiles(S \ {m})

\* Is there a run of four digits at position i of the name?
DigitsAt(name, i) ==
    /\ i + 3 <= Len(name)
    /\ \A k \in i..(i + 3) : name[k] \in DigitChars

\* YEAR_PATTERN.search(f.name): None, or group(1) of the leftmost match
YearSearch(name) ==
    LET hits == {i \in DOMAIN name : DigitsAt(name, i)}
    IN  IF hits = {} THEN None
        ELSE LET i == CHOOSE x \in hits : \A y \in hits : x <= y
             IN  [year |-> name[i] \o name[i + 1] \o name[i + 2] \o name[i + 3]]

\* A plausible slip: a repeated year overwrites the earlier file.
RECURSIVE BuildYearFileMapOverwrites(_, _)
BuildYearFileMapOverwrites(files, mapping) ==
    IF files = <<>> THEN [status |-> "ok", mapping |-> mapping]
    ELSE LET f == Head(files)
             m == YearSearch(f)
         IN  IF m = None
             THEN [status |-> "ValueError: Could not extract year", file |-> f]
             ELSE BuildYearFileMapOverwrites(Tail(files),
                      [k \in DOMAIN mapping \cup {m.year} |->
                          IF k = m.year THEN f ELSE mapping[k]])

\* _build_year_file_map: the loop over self.files, from `mapping` so far
RECURSIVE BuildYearFileMap(_, _)
BuildYearFileMap(files, mapping) ==
    IF files = <<>> THEN [status |-> "ok", mapping |-> mapping]
    ELSE LET f == Head(files)
             m == YearSearch(f)
         IN  IF m = None
             THEN [status |-> "ValueError: Could not extract year", file |-> f]
             ELSE IF m.year \in DOMAIN mapping
             THEN [status |-> "ValueError: Duplicate year", year |-> m.year]
             ELSE BuildYearFileMap(Tail(files),
                      [k \in DOMAIN mapping \cup {m.year} |->
                          IF k = m.year THEN f ELSE mapping[k]])

\* header.rename(columns=rename_dict); an absent or empty dict renames nothing
RenamedColumns(columns, rename_dict) ==
    {IF c \in DOMAIN rename_dict THEN rename_dict[c] ELSE c : c \in columns}

\* rename_col_dict.get(year, None), None given as the empty mapping
RenameOf(rename_col_dict, year) ==
    IF year \in DOMAIN rename_col_dict THEN rename_col_dict[year] ELSE <<>>

\* missing_cols of one file: the data_col entries its renamed header lacks
MissingCols(columns, rename_dict, data_col) ==
    {data_col[i] : i \in DOMAIN data_col} \ RenamedColumns(columns, rename_dict)

\* A plausible slip: raising inside the loop, at the first offending file.
RECURSIVE ValidateStopsAtFirst(_, _, _, _, _)
ValidateStopsAtFirst(files, headers, rename_col_dict, data_col, missing) ==
    IF files = <<>> THEN [status |-> "ok", read |-> {}]
    ELSE LET f    == Head(files)
             year == YearSearch(f).year
             gone == MissingCols(headers[f], RenameOf(rename_col_dict, year), data_col)
         IN  IF gone # {}
             THEN [status |-> "ValueError: missing columns",
                   missing |-> <<[year |-> year, file |-> f, missing_cols |-> gone]>>,
                   read |-> {f}]
             ELSE LET r == ValidateStopsAtFirst(Tail(files), headers, rename_col_dict,
                                                data_col, missing)
                  IN  [r EXCEPT !.read = @ \cup {f}]

\* _validate_files_have_datacol: the loop over year_to_file.items() (the dict
\* keeps the order of insertion, the order of self.files), collecting in
\* `missing`, then the single raise. `read` is the set of headers read.
RECURSIVE ValidateFilesHaveDatacol(_, _, _, _, _)
ValidateFilesHaveDatacol(files, headers, rename_col_dict, data_col, missing) ==
    IF files = <<>>
    THEN IF missing # <<>>
         THEN [status |-> "ValueError: missing columns", missing |-> missing,
               read |-> {}]
         ELSE [status |-> "ok", read |-> {}]
    ELSE LET f    == Head(files)
             year == YearSearch(f).year
             gone == MissingCols(headers[f], RenameOf(rename_col_dict, year), data_col)
             r    == ValidateFilesHaveDatacol(Tail(files), headers, rename_col_dict,
                        data_col,
                        IF gone # {}
                        THEN Append(missing, [year |-> year, file |-> f,
                                               missing_cols |-> gone])
                        ELSE missing)
         IN  [r EXCEPT !.read = @ \cup {f}]

\* DailyMeasureDataDir(...) from the file list on: the object's year_to_file
\* and empty _cache, or the exception raised.
DirConstruct(files, headers, rename_col_dict, data_col) ==
    IF files = <<>> THEN [status |-> "ValueError: No data files found"]
    ELSE LET m == BuildYearFileMap(files, <<>>)
         IN  IF m.status # "ok" THEN m
             ELSE LET v == ValidateFilesHaveDatacol(files, headers, rename_col_dict,
                                                    data_col, <<>>)
                  IN  IF v.status # "ok" THEN v
                      ELSE [status |-> "ok", year_to_file |-> m.mapping,
                            cache |-> <<>>, read |-> v.read]

HeaderChoices == {{"Date", "GEOID10", "HeatIndex"}, {"Date", "GEOID10", "HI_raw"}}

\* rename_col_dict: empty, or the 2015 file's raw column renamed
RenameChoices == {<<>>, "2015" :> ("HI_raw" :> "HeatIndex")}

DataCol == <<"HeatIndex">>

CtorInit ==
    /\ \E names \in SUBSET CandidateNames, rename \in RenameChoices :
          /\ Cardinality(names) <= MaxFiles
          /\ \E headers \in [names -> HeaderChoices] :
                ld_args = [files |-> SortedFiles(names), headers |-> headers,
                           rename_col_dict |-> rename, data_col |-> DataCol]
    /\ ld_obj = None
    /\ DirIdle
    /\ RunIdle

CtorConstruct ==
    /\ ld_obj = None
    /\ ld_obj' = DirConstruct(ld_args.files, ld_args.headers, ld_args.rename_col_dict,
                              ld_args.data_col)
    /\ UNCHANGED <<ld_args, dirVars, runVars>>

NextCtor == CtorConstruct

SpecCtor == CtorInit /\ [][NextCtor]_vars

(***************************************************************************)
(* C13: the construction checks the header of every mapped year file       *)
(* before any wrapper exists; if files lack a target column (after the     *)
(* year's rename) it fails with one error that lists every such file, and  *)
(* nothing is cached.                                                      *)
(***************************************************************************)
\* the files of the directory whose renamed header lacks a target column
Offending ==
    {f \in Range(ld_args.files) :
        \E i \in DOMAIN ld_args.data_col :
            ld_args.data_col[i] \notin
                RenamedColumns(ld_args.headers[f],
                               RenameOf(ld_args.rename_col_dict, YearSearch(f).year))}

\* the year map could be built: every name has a year, no year twice
MapBuilt ==
    /\ ld_args.files # <<>>
    /\ \A f \in Range(ld_args.files) : YearSearch(f) # None
    /\ \A f, g \in Range(ld_args.files) : f # g => YearSearch(f) # YearSearch(g)

C13_AllHeadersChecked ==
    (ld_obj # None /\ MapBuilt) =>
        IF Offending # {}
        THEN /\ ld_obj.status = "ValueError: missing columns"
             /\ {ld_obj.missing[i].file : i \in DOMAIN ld_obj.missing} = Offending
             /\ ld_obj.read = Range(ld_args.files)
             /\ cache = <<>>
        ELSE /\ ld_obj.status = "ok"
             /\ ld_obj.read = Range(ld_args.files)
             /\ ld_obj.cache = <<>>

\* a directory of two files, both without the target column, was rejected
C13_Witness ==
    /\ ld_obj # None
    /\ MapBuilt
    /\ Cardinality(Offending) = 2
    /\ ld_obj.status = "ValueError: missing columns"

(***************************************************************************)
(* C14: the construction succeeds only if every candidate file name holds  *)
(* exactly one 4-digit year token and no two files map to the same year;   *)
(* a name without a token fails with the parse error, two files of one     *)
(* year with the configuration error; the year-to-file map is injective.   *)
(* As claimed: C14_ExactlyOneYearToken. As amended, with at least one      *)
(* token, the leftmost being the year: C14_SomeYearToken.                  *)
(***************************************************************************)
\* re.findall on the name: the number of non-overlapping 4-digit matches
\* found from position i on
RECURSIVE YearTokensFrom(_, _)
YearTokensFrom(name, i) ==
    IF i > Len(name) THEN 0
    ELSE IF DigitsAt(name, i) THEN 1 + YearTokensFrom(name, i + 4)
    ELSE YearTokensFrom(name, i + 1)

YearTokens(name) == YearTokensFrom(name, 1)

\* no name without a token before it in the list, the list repeats a year
FirstFailureIsDuplicate ==
    \E j \in DOMAIN ld_args.files :
        /\ \A i \in 1..j : YearSearch(ld_args.files[i]) # None
        /\ \E i \in 1..(j - 1) :
              YearSearch(ld_args.files[i]) = YearSearch(ld_args.files[j])

\* no repeated year before the first name without a token
FirstFailureIsNoYear ==
    \E j \in DOMAIN ld_args.files :
        /\ YearSearch(ld_args.files[j]) = None
        /\ \A i, k \in 1..(j - 1) :
              i # k => YearSearch(ld_args.files[i]) # YearSearch(ld_args.files[k])

YearMapInjective ==
    ld_obj.status = "ok" =>
        \A y, z \in DOMAIN ld_obj.year_to_file :
            y # z => ld_obj.year_to_file[y] # ld_obj.year_to_file[z]

\* as claimed: success needs exactly one token in every name
C14_ExactlyOneYearToken ==
    ld_obj # None =>
        /\ ld_obj.status = "ok" =>
              \A f \in Range(ld_args.files) : YearTokens(f) = 1
        /\ FirstFailureIsNoYear => ld_obj.status = "ValueError: Could not extract year"
        /\ FirstFailureIsDuplicate => ld_obj.status = "ValueError: Duplicate year"
        /\ YearMapInjective

\* as amended: success needs a 4-digit run in every name, the leftmost one
\* being the year
C14_SomeYearToken ==
    ld_obj # None =>
        /\ ld_obj.status = "ok" =>
              /\ \A f \in Range(ld_args.files) : YearTokens(f) >= 1
              /\ \A f \in Range(ld_args.files) :
                    ld_obj.year_to_file[YearSearch(f).year] = f
        /\ FirstFailureIsNoYear => ld_obj.status = "ValueError: Could not extract year"
        /\ FirstFailureIsDuplicate => ld_obj.status = "ValueError: Duplicate year"
        /\ YearMapInjective

\* a directory of two files, one of them with two year tokens in its name,
\* was constructed
C14_Witness ==
    /\ ld_obj # None
    /\ ld_obj.status = "ok"
    /\ Len(ld_args.files) = 2
    /\ \E f \in Range(ld_args.files) : YearTokens(f) = 2

(***************************************************************************)
(* Spec: one lag batch, sequential or on the thread pool, and the merge of *)
(* run_pipeline.                                                           *)
(***************************************************************************)
\* list(range(n_lags))
RangeList(n_lags) == [i \in 1..n_lags |-> i - 1]

\* Lag lists a caller hands to process_multiple_lags_* directly: a single
\* lag, a descending list, lists that repeat a lag.
DirectLagLists == {<<1>>, <<1, 0>>, <<1, 1>>, <<0, 1, 0>>}

\* The directories of Spec: 2016 and 2017 only, all three years, 2017 only.
RunYearSets == {{"2016", "2017"}, {"2015", "2016", "2017"}, {"2017"}}

\* Either every file loads, or the 2016 file raises when materialized (for
\* one directory the outcome is the same on every run).
UnreadableChoices == {{}, {"2016"}}

NewTasks(n_days) == [i \in DOMAIN n_days |-> [st |-> "pending", result |-> None]]

\* The entry points: run_pipeline, a direct call of process_multiple_lags_batch
\* or process_multiple_lags_parallel (parallel says which of the two), and
\* "single_lag": a pool whose tasks call _process_single_lag_internal with
\* contextual_dir and no precomputed tables, one call per lag of n_days.
RunInit ==
    /\ \E entry \in {"run_pipeline", "direct", "single_lag"}, parallel \in BOOLEAN,
          w \in 1..MaxWorkers :
          \E n_days \in IF entry = "run_pipeline"
                        THEN {RangeList(k) : k \in 0..MaxLags}
                        ELSE DirectLagLists :
             /\ entry = "single_lag" => ~parallel
             /\ args = [entry |-> entry, parallel |-> parallel, n_days |-> n_days,
                        max_workers |-> IF parallel \/ entry = "single_lag"
                                        THEN w ELSE 0]
             /\ task = NewTasks(n_days)
    /\ \E ys \in RunYearSets : year_to_file = [k \in ys |-> FileName(k)]
    /\ unreadable \in UnreadableChoices
    /\ run_log = [sets |-> 0, preloads |-> 0, returned |-> <<>>]
    /\ cache = <<>>
    /\ geoid_filter = None
    /\ ctor_calls = [k \in YearKeys |-> 0]
    /\ last_call = NoCall
    /\ pc = "start"
    /\ error = "none"
    /\ years_to_load = <<>>
    /\ contextual_df = None
    /\ join_result = <<>>
    /\ temp_files = <<>>
    /\ fs = <<>>
    /\ merge_i = 0
    /\ lag_cols = <<>>
    /\ out = None
    /\ batch_result = None
    /\ LoadIdle

Raise(e) == pc' = "raised" /\ error' = e

\* Steps 1-3 of both process_multiple_lags_*: lag columns, unique GEOIDs,
\* required and available years. max(n_days) raises on an empty list. The
\* single-lag pool has no such steps: its tasks do them per lag.
Prepare ==
    /\ pc = "start"
    /\ IF args.entry = "single_lag"
       THEN /\ pc' = "submit"
            /\ UNCHANGED <<error, years_to_load>>
       ELSE IF args.n_days = <<>>
       THEN /\ Raise("ValueError: empty n_days")
            /\ UNCHANGED years_to_load
       ELSE /\ years_to_load' =
                  YearsToLoad(ComputeRequiredYears(Survey, MaxOf(Range(args.n_days))),
                              year_to_file)
            /\ pc' = "set_filter"
            /\ UNCHANGED error
    /\ UNCHANGED <<dirVars, loadVars, args, contextual_df, task, join_result,
                   temp_files, fs, merge_i, lag_cols, out, batch_result, unreadable,
                   run_log>>

\* contextual_dir.geoid_filter = unique_geoids
SetFilter ==
    /\ pc = "set_filter"
    /\ geoid_filter' = [set |-> ExtractUniqueGeoids(Survey)]
    /\ run_log' = [run_log EXCEPT !.sets = @ + 1]
    /\ pc' = "preload"
    /\ UNCHANGED <<year_to_file, cache, ctor_calls, last_call, loadVars, args, error,
                   years_to_load, contextual_df, task, join_result, temp_files, fs,
                   merge_i, lag_cols, out, batch_result, unreadable>>

\* contextual_dir.preload_years(years_to_load)
Preload ==
    /\ pc = "preload"
    /\ LET r == PreloadYears(cache, ctor_calls, geoid_filter, year_to_file,
                              [i \in DOMAIN years_to_load |-> StrArg(years_to_load[i])],
                              [k \in YearKeys |-> k \notin unreadable])
       IN  /\ cache' = r.cache
           /\ ctor_calls' = r.calls
           /\ IF r.status = "returned"
              THEN pc' = "concat" /\ UNCHANGED error
              ELSE Raise(r.status)
    /\ run_log' = [run_log EXCEPT !.preloads = @ + 1]
    /\ UNCHANGED <<year_to_file, geoid_filter, last_call, loadVars, args, years_to_load,
                   contextual_df, task, join_result, temp_files, fs, merge_i, lag_cols,
                   out, batch_result, unreadable>>

\* A plausible slip: an empty list of years gives an empty table and the call
\* goes on.
ConcatAllowsEmpty ==
    /\ pc = "concat"
    /\ contextual_df' =
          [parts |-> [i \in DOMAIN years_to_load |-> cache[years_to_load[i]]]]
    /\ pc' = IF args.parallel THEN "submit" ELSE "loop"
    /\ UNCHANGED <<dirVars, loadVars, args, error, years_to_load, task, join_result,
                   temp_files, fs, merge_i, lag_cols, out, batch_result, unreadable,
                   run_log>>

\* pd.concat([contextual_dir[yr].df for yr in years_to_load]) and the metadata
\* of the first year; pd.concat raises on an empty list.
Concat ==
    /\ pc = "concat"
    /\ IF years_to_load = <<>>
       THEN /\ Raise("ValueError: No objects to concatenate")
            /\ UNCHANGED contextual_df
       ELSE /\ contextual_df' =
                  [parts |-> [i \in DOMAIN years_to_load |-> cache[years_to_load[i]]]]
            /\ pc' = IF args.parallel THEN "submit" ELSE "loop"
            /\ UNCHANGED error
    /\ UNCHANGED <<dirVars, loadVars, args, years_to_load, task, join_result,
                   temp_files, fs, merge_i, lag_cols, out, batch_result, unreadable,
                   run_log>>

\* The outcome of the join of lag n: the one already observed for this lag,
\* or any outcome (the join is a function of its inputs).
JoinOf(n, o) ==
    /\ n \in DOMAIN join_result => o = join_result[n]
    /\ join_result' = [k \in DOMAIN join_result \cup {n} |->
                          IF k = n THEN o ELSE join_result[k]]

WriteFile(path, o) ==
    fs' = [f \in DOMAIN fs \cup {path} |-> IF f = path THEN [ids |-> o.ids] ELSE fs[f]]

Pending == {i \in DOMAIN task : task[i].st = "pending"}

\* One iteration of the loop of process_multiple_lags_batch: the join (not
\* inside any try), the skip of a table without value columns, the write and
\* the append.
BatchIteration ==
    /\ pc = "loop"
    /\ Pending # {}
    /\ LET i == MinOf(Pending)
           n == args.n_days[i]
       IN  \E o \in JoinOutcomes :
             /\ JoinOf(n, o)
             /\ CASE o.kind = "raise" ->
                       /\ Raise("join")
                       /\ UNCHANGED <<task, temp_files, fs>>
                  [] o.kind = "no_values" ->
                       /\ task' = [task EXCEPT ![i] = [st |-> "collected", result |-> None]]
                       /\ UNCHANGED <<pc, error, temp_files, fs>>
                  [] OTHER ->
                       LET path == TempFile(MeasureType, n, "parquet")
                       IN  /\ WriteFile(path, o)
                           /\ temp_files' = Append(temp_files, path)
                           /\ task' = [task EXCEPT ![i] = [st |-> "collected",
                                                            result |-> path]]
                           /\ UNCHANGED <<pc, error>>
    /\ UNCHANGED <<dirVars, loadVars, args, years_to_load, contextual_df, merge_i,
                   lag_cols, out, batch_result, unreadable,
                   run_log>>

\* return temp_files of process_multiple_lags_batch
BatchReturn ==
    /\ pc = "loop"
    /\ Pending = {}
    /\ pc' = "returned"
    /\ run_log' = [run_log EXCEPT !.returned = temp_files]
    /\ UNCHANGED <<dirVars, loadVars, args, error, years_to_load, contextual_df, task,
                   join_result, temp_files, fs, merge_i, lag_cols, out, batch_result,
                   unreadable>>

\* A plausible slip: tasks are handed to the pool while the preload is pending.
SubmitPhaseEarly == pc \in {"preload", "submit"}

\* The executor is created, and tasks submitted, only after the preload, the
\* concatenation and the metadata extraction.
SubmitPhase == pc = "submit"

\* executor.submit(_process_single_lag_internal, n=n, ...) for the next n
Submit ==
    /\ SubmitPhase
    /\ Pending # {}
    /\ LET i == MinOf(Pending)
       IN  /\ task' = [task EXCEPT ![i].st = "queued"]
           /\ pc' = IF Pending = {i} THEN "collect" ELSE pc
    /\ UNCHANGED <<dirVars, loadVars, args, error, years_to_load, contextual_df,
                   join_result, temp_files, fs, merge_i, lag_cols, out, batch_result, unreadable,
                   run_log>>

Queued == {i \in DOMAIN task : task[i].st = "queued"}
Running ==
    {i \in DOMAIN task : task[i].st \in {"fb_filter", "fb_preload", "joining", "writing"}}

\* A plausible slip: the precomputed tables are not handed to the task, so
\* every task takes the fallback branch and works on the directory.
StartFallback ==
    /\ Queued # {}
    /\ Cardinality(Running) < args.max_workers
    /\ task' = [task EXCEPT ![MinOf(Queued)].st = "fb_filter"]
    /\ UNCHANGED <<dirVars, loadVars, args, pc, error, years_to_load, contextual_df,
                   join_result, temp_files, fs, merge_i, lag_cols, out, batch_result, unreadable,
                   run_log>>

\* A plausible slip: one thread of the pool is held back, so a pool of one
\* thread never starts a task.
StartNeedsSpare ==
    /\ Queued # {}
    /\ Cardinality(Running) + 1 < args.max_workers
    /\ task' = [task EXCEPT ![MinOf(Queued)].st =
                    IF args.entry = "single_lag" THEN "fb_filter" ELSE "joining"]
    /\ UNCHANGED <<dirVars, loadVars, args, pc, error, years_to_load, contextual_df,
                   join_result, temp_files, fs, merge_i, lag_cols, out, batch_result, unreadable,
                   run_log>>

\* A worker thread of the pool takes the oldest queued task.
Start ==
    /\ Queued # {}
    /\ Cardinality(Running) < args.max_workers
    /\ task' = [task EXCEPT ![MinOf(Queued)].st =
                    IF args.entry = "single_lag" THEN "fb_filter" ELSE "joining"]
    /\ UNCHANGED <<dirVars, loadVars, args, pc, error, years_to_load, contextual_df,
                   join_result, temp_files, fs, merge_i, lag_cols, out, batch_result, unreadable,
                   run_log>>

\* The fallback branch of _process_single_lag_internal, first half: the lag
\* columns and GEOIDs of this lag, then contextual_dir.geoid_filter = ...
FallbackSetFilter ==
    \E i \in DOMAIN task :
        /\ task[i].st = "fb_filter"
        /\ geoid_filter' = [set |-> ExtractUniqueGeoids(Survey)]
        /\ run_log' = [run_log EXCEPT !.sets = @ + 1]
        /\ task' = [task EXCEPT ![i].st = "fb_preload"]
        /\ UNCHANGED <<year_to_file, cache, ctor_calls, last_call, loadVars, args, pc,
                       error, years_to_load, contextual_df, join_result, temp_files, fs,
                       merge_i, lag_cols, out, batch_result, unreadable>>

\* The fallback branch, second half: preload_years and pd.concat for the
\* years of this lag. What they raise is caught by the function's except
\* clause, which returns None.
FallbackPreload ==
    \E i \in DOMAIN task :
        /\ task[i].st = "fb_preload"
        /\ LET years == YearsToLoad(ComputeRequiredYears(Survey, args.n_days[i]),
                                    year_to_file)
               r == PreloadYears(cache, ctor_calls, geoid_filter, year_to_file,
                                 [k \in DOMAIN years |-> StrArg(years[k])],
                                 [k \in YearKeys |-> k \notin unreadable])
           IN  /\ cache' = r.cache
               /\ ctor_calls' = r.calls
               /\ task' = [task EXCEPT ![i] =
                              IF r.status = "returned" /\ years # <<>>
                              THEN [st |-> "joining", result |-> None]
                              ELSE [st |-> "finished", result |-> None]]
        /\ run_log' = [run_log EXCEPT !.preloads = @ + 1]
        /\ UNCHANGED <<year_to_file, geoid_filter, last_call, loadVars, args, pc, error,
                       years_to_load, contextual_df, join_result, temp_files, fs,
                       merge_i, lag_cols, out, batch_result, unreadable>>

\* _process_single_lag_internal up to its return without a file: the join,
\* the except clause, the skip of a table without value columns.
Join ==
    \E i \in DOMAIN task, o \in JoinOutcomes :
        /\ task[i].st = "joining"
        /\ JoinOf(args.n_days[i], o)
        /\ task' = [task EXCEPT ![i] =
                       IF o.kind = "values"
                       THEN [st |-> "writing", result |-> None]
                       ELSE [st |-> "finished",
                             result |-> SingleLagResult(o, MeasureType, args.n_days[i])]]
        /\ UNCHANGED <<dirVars, loadVars, args, pc, error, years_to_load, contextual_df,
                       temp_files, fs, merge_i, lag_cols, out, batch_result, unreadable,
                   run_log>>

\* write_data(out_df, temp_file) and return temp_file
Write ==
    \E i \in DOMAIN task :
        /\ task[i].st = "writing"
        /\ LET n == args.n_days[i]
               r == SingleLagResult(join_result[n], MeasureType, n)
           IN  /\ WriteFile(TempFile(MeasureType, n, "parquet"), join_result[n])
               /\ task' = [task EXCEPT ![i] = [st |-> "finished", result |-> r]]
        /\ UNCHANGED <<dirVars, loadVars, args, pc, error, years_to_load, contextual_df,
                       join_result, temp_files, merge_i, lag_cols, out, batch_result, unreadable,
                   run_log>>

\* One iteration of the as_completed loop: fut.result() of a finished future.
Collect ==
    /\ pc = "collect"
    /\ \E i \in DOMAIN task :
          /\ task[i].st = "finished"
          /\ task' = [task EXCEPT ![i].st = "collected"]
          /\ temp_files' = IF task[i].result # None
                           THEN Append(temp_files, task[i].result)
                           ELSE temp_files
    /\ UNCHANGED <<dirVars, loadVars, args, pc, error, years_to_load, contextual_df,
                   join_result, fs, merge_i, lag_cols, out, batch_result, unreadable,
                   run_log>>

\* A plausible slip: the collection loop is left after the first completion.
SomeCollected == \E i \in DOMAIN task : task[i].st = "collected"

\* as_completed has yielded every submitted future.
AllCollected == \A i \in DOMAIN task : task[i].st = "collected"

\* The with block ends and process_multiple_lags_parallel returns temp_files.
ParallelReturn ==
    /\ pc = "collect"
    /\ AllCollected
    /\ pc' = "returned"
    /\ run_log' = [run_log EXCEPT !.returned = temp_files]
    /\ UNCHANGED <<dirVars, loadVars, args, error, years_to_load, contextual_df, task,
                   join_result, temp_files, fs, merge_i, lag_cols, out, batch_result,
                   unreadable>>

\* run_pipeline after the batch: del contextual_data_all, the prefix filter and
\* the sort by lag number.
MergeSort ==
    /\ pc = "returned"
    /\ args.entry = "run_pipeline"
    /\ temp_files' = FilesToMerge(temp_files, MeasureType)
    /\ pc' = "merge"
    /\ UNCHANGED <<dirVars, loadVars, args, error, years_to_load, contextual_df, task,
                   join_result, fs, merge_i, lag_cols, out, batch_result, unreadable,
                   run_log>>

\* One iteration of the merge loop: read the file, check the row order,
\* drop the id column, accumulate.
MergeRead ==
    /\ pc = "merge"
    /\ merge_i < Len(temp_files)
    /\ LET f == temp_files[merge_i + 1]
       IN  IF IdsAligned(SurveyIds, fs[f].ids)
           THEN /\ lag_cols' = Append(lag_cols, LagOfFile(f))
                /\ UNCHANGED <<pc, error>>
           ELSE /\ Raise("ValueError: Row order mismatch")
                /\ UNCHANGED lag_cols
    /\ merge_i' = merge_i + 1
    /\ UNCHANGED <<dirVars, loadVars, args, years_to_load, contextual_df, task,
                   join_result, temp_files, fs, out, batch_result, unreadable,
                   run_log>>

\* pd.concat of the survey table and the lag tables, and write_data(out_path)
MergeWrite ==
    /\ pc = "merge"
    /\ merge_i = Len(temp_files)
    /\ out' = [ids |-> SurveyIds, lags |-> lag_cols]
    /\ pc' = "done"
    /\ UNCHANGED <<dirVars, loadVars, args, error, years_to_load, contextual_df, task,
                   join_result, temp_files, fs, merge_i, lag_cols, batch_result, unreadable,
                   run_log>>

\* The same run_pipeline input run once more with --parallel, on a new
\* DailyMeasureDataDir: the sequential run's end is kept for comparison.
RunAgainParallel ==
    /\ pc \in {"done", "raised"}
    /\ args # None
    /\ args.entry = "run_pipeline"
    /\ ~args.parallel
    /\ batch_result = None
    /\ batch_result' = [pc |-> pc, out |-> out]
    /\ \E w \in 1..MaxWorkers : args' = [args EXCEPT !.parallel = TRUE, !.max_workers = w]
    /\ task' = NewTasks(args.n_days)
    /\ cache' = <<>>
    /\ geoid_filter' = None
    /\ ctor_calls' = [k \in YearKeys |-> 0]
    /\ pc' = "start"
    /\ error' = "none"
    /\ years_to_load' = <<>>
    /\ contextual_df' = None
    /\ temp_files' = <<>>
    /\ merge_i' = 0
    /\ lag_cols' = <<>>
    /\ out' = None
    /\ run_log' = [sets |-> 0, preloads |-> 0, returned |-> <<>>]
    /\ UNCHANGED <<year_to_file, last_call, loadVars, join_result, fs, unreadable>>

Next ==
    \/ Prepare \/ SetFilter \/ Preload \/ Concat
    \/ BatchIteration \/ BatchReturn
    \/ Submit \/ Start \/ FallbackSetFilter \/ FallbackPreload
    \/ Join \/ Write \/ Collect \/ ParallelReturn
    \/ MergeSort \/ MergeRead \/ MergeWrite
    \/ RunAgainParallel

Spec == RunInit /\ [][Next]_vars

(***************************************************************************)
(* SpecPrior: a collection that has been used before (any gets, preloads   *)
(* and filter assignments) is handed to process_multiple_lags_batch or     *)
(* process_multiple_lags_parallel, followed up to the concatenated         *)
(* contextual table.                                                       *)
(***************************************************************************)
PriorInit ==
    /\ RunInit
    /\ args.entry = "direct"
    /\ args.n_days = <<1>>
    /\ unreadable = {}

\* Earlier uses of the collection, before the call under study begins.
PriorGetItem ==
    /\ pc = "start"
    /\ \E year \in YearArgs :
          LET r == GetItem(cache, ctor_calls, geoid_filter, year_to_file, year, TRUE)
          IN  cache' = r.cache /\ ctor_calls' = r.calls
    /\ UNCHANGED <<year_to_file, geoid_filter, last_call, loadVars, runVars>>

PriorPreload ==
    /\ pc = "start"
    /\ \E years \in {None} \cup {[list |-> l] :
                          l \in SeqsUpTo({StrArg(k) : k \in YearKeys}, MaxPreload)} :
          LET r == PreloadYears(cache, ctor_calls, geoid_filter, year_to_file,
                                PreloadArg(years, year_to_file),
                                [k \in YearKeys |-> TRUE])
          IN  cache' = r.cache /\ ctor_calls' = r.calls
    /\ UNCHANGED <<year_to_file, geoid_filter, last_call, loadVars, runVars>>

PriorSetFilter ==
    /\ pc = "start"
    /\ geoid_filter' \in FilterChoices
    /\ UNCHANGED <<year_to_file, cache, ctor_calls, last_call, loadVars, runVars>>

NextPrior ==
    \/ PriorGetItem \/ PriorPreload \/ PriorSetFilter
    \/ Prepare \/ SetFilter \/ Preload \/ Concat

SpecPrior == PriorInit /\ [][NextPrior]_vars

(***************************************************************************)
(* SpecPar: one direct call of process_multiple_lags_parallel, under the   *)
(* scheduling the code relies on. The calling thread runs on until it      *)
(* blocks in as_completed, which yields a finished future when there is    *)
(* one; an idle pool thread takes a queued task; a join that has begun     *)
(* ends (the hypothesis that every per-lag join terminates) and so does    *)
(* the write of its file.                                                  *)
(***************************************************************************)
ParInit ==
    /\ RunInit
    /\ args.entry = "direct"
    /\ args.parallel

NextPar ==
    \/ Prepare \/ SetFilter \/ Preload \/ Concat
    \/ Submit \/ Start \/ Join \/ Write \/ Collect \/ ParallelReturn

SpecPar ==
    /\ ParInit /\ [][NextPar]_vars
    /\ WF_vars(Prepare \/ SetFilter \/ Preload \/ Concat \/ Submit)
    /\ WF_vars(Collect \/ ParallelReturn)
    /\ WF_vars(Start)
    /\ WF_vars(Join)
    /\ WF_vars(Write)

(***************************************************************************)
(* C1: in process_multiple_lags_parallel no lag task is submitted or       *)
(* started until preload_years has returned with every year of             *)
(* years_to_load cached and the concatenated contextual table is built.    *)
(***************************************************************************)
Submitted == {i \in DOMAIN task : task[i].st # "pending"}

C1_PreloadBeforeSubmit ==
    (args.parallel /\ Submitted # {}) =>
        /\ pc \notin {"start", "set_filter", "preload", "concat"}
        /\ \A i \in DOMAIN years_to_load : years_to_load[i] \in DOMAIN cache
        /\ contextual_df # None
        /\ contextual_df.parts = [i \in DOMAIN years_to_load |-> cache[years_to_load[i]]]

\* a worker runs a join on a table concatenated from two preloaded years
C1_Witness ==
    /\ args.parallel
    /\ \E i \in DOMAIN task : task[i].st = "joining"
    /\ Len(years_to_load) = 2

(***************************************************************************)
(* C2: in run_pipeline the merge reads no temp lag file until every        *)
(* per-lag join of the batch has finished.                                 *)
(***************************************************************************)
C2_MergeAfterAllJoins ==
    (pc = "merge" \/ merge_i > 0) =>
        \A i \in DOMAIN task : task[i].st = "collected"

\* the merge has read a file written by a two-worker pool
C2_Witness ==
    /\ merge_i > 0
    /\ args.parallel
    /\ args.max_workers >= 2
    /\ Len(args.n_days) >= 2

(***************************************************************************)
(* C3: in process_multiple_lags_parallel an exception inside one lag's     *)
(* join is not propagated, prevents no other lag task, and the returned    *)
(* list holds the path of every lag whose join gave a value column.        *)
(***************************************************************************)
C3_ParallelIsolation ==
    args.parallel =>
        /\ error # "join"
        /\ pc = "returned" =>
              \A i \in DOMAIN task :
                 /\ task[i].st = "collected"
                 /\ args.n_days[i] \in DOMAIN join_result
                 /\ join_result[args.n_days[i]].kind = "values" =>
                       \E k \in DOMAIN temp_files :
                          temp_files[k] = TempFile(MeasureType, args.n_days[i], "parquet")

\* the pool returned after one lag's join raised and another lag's join
\* produced values
C3_Witness ==
    /\ args.parallel
    /\ pc = "returned"
    /\ \E i, j \in DOMAIN task :
          /\ join_result[args.n_days[i]].kind = "raise"
          /\ join_result[args.n_days[j]].kind = "values"

(***************************************************************************)
(* C4: in process_multiple_lags_batch an exception raised by one lag's     *)
(* join is caught for that lag, the remaining lags are still processed     *)
(* and the function returns normally.                                      *)
(***************************************************************************)
C4_BatchIsolation ==
    (~args.parallel /\ args.entry # "single_lag" /\ batch_result = None) =>
        /\ error # "join"
        /\ pc = "returned" =>
              \A i \in DOMAIN task :
                 task[i].st = "collected" /\ args.n_days[i] \in DOMAIN join_result

(***************************************************************************)
(* C5: for the same input run_pipeline produces the same final merged      *)
(* table through the sequential and through the parallel batch.            *)
(***************************************************************************)
C5_SameFinalTable ==
    (batch_result # None /\ pc \in {"done", "raised"}) =>
        batch_result = [pc |-> pc, out |-> out]

(***************************************************************************)
(* C12: in every batch run, also one whose per-lag work goes through the   *)
(* fallback of _process_single_lag_internal, geoid_filter is assigned      *)
(* exactly once, before the first preload, and never while a preload or a  *)
(* lag join is in progress.                                                *)
(***************************************************************************)
FilterAssignedOnce ==
    /\ run_log.sets <= 1
    /\ run_log.preloads > 0 => run_log.sets = 1
    /\ pc = "returned" => run_log.sets = 1

FilterAssignedOutsideWork ==
    run_log'.sets > run_log.sets =>
        /\ run_log.preloads = 0
        /\ \A i \in DOMAIN task : task[i].st # "joining"

NoValueLags ==
    {n \in Range(args.n_days) :
        n \in DOMAIN join_result /\ join_result[n].kind = "no_values"}

C17_NoValuesLagSkipped ==
    /\ \A n \in NoValueLags :
          /\ TempFile(MeasureType, n, "parquet") \notin DOMAIN fs
          /\ TempFile(MeasureType, n, "parquet") \notin Range(temp_files)
          /\ out # None => n \notin Range(out.lags)
    /\ \A i \in DOMAIN task :
          args.n_days[i] \in NoValueLags => task[i].result = None
    /\ (merge_i > 0 /\ pc = "raised") =>
          LagOfFile(temp_files[merge_i]) \notin NoValueLags

\* both paths of run_pipeline ended with the final table for lags 0 and 1,
\* lag 0 without values and lag 1 with values
C17_Witness ==
    /\ pc = "done"
    /\ batch_result # None
    /\ batch_result.pc = "done"
    /\ args.n_days = <<0, 1>>
    /\ 0 \in NoValueLags
    /\ out.lags = <<1>>

(***************************************************************************)
(* C21: the merge reads the temp lag files in ascending order of the lag   *)
(* number in the file name, so the lag columns of the final table are in   *)
(* ascending lag order whatever the order of completion or of the          *)
(* returned paths.                                                         *)
(***************************************************************************)
Ascending(s) == \A i, j \in DOMAIN s : i < j => s[i] < s[j]

C21_MergeInLagOrder ==
    /\ Ascending(lag_cols)
    /\ (pc \in {"merge", "done"} \/ merge_i > 0) =>
          /\ Ascending([k \in DOMAIN temp_files |-> LagOfFile(temp_files[k])])
          /\ Range(temp_files) = Range(run_log.returned)
    /\ out # None =>
          /\ Ascending(out.lags)
          /\ Range(out.lags) = {LagOfFile(f) : f \in Range(run_log.returned)}

\* the pool returned the path of lag 1 before that of lag 0, and the final
\* table has lag 0 before lag 1
C21_Witness ==
    /\ pc = "done"
    /\ args.parallel
    /\ run_log.returned = <<TempFile(MeasureType, 1, "parquet"),
                            TempFile(MeasureType, 0, "parquet")>>
    /\ out.lags = <<0, 1>>

(***************************************************************************)
(* C6: no two worker tasks of process_multiple_lags_parallel write the     *)
(* same temp file path, so two tasks never write one file concurrently.    *)
(* As claimed, for every lag list: C6_UniquePaths. As amended, for every   *)
(* lag list without a repeated lag: C6_UniquePathsDistinctLags.            *)
(***************************************************************************)
TaskPath(i) == TempFile(MeasureType, args.n_days[i], "parquet")

\* the tasks that are writing or have written their file
Writers == {i \in DOMAIN task : task[i].st = "writing" \/ task[i].result # None}

NoTwoTasksShareAPath ==
    \A i, j \in Writers : i # j => TaskPath(i) # TaskPath(j)

C6_UniquePaths == args.parallel => NoTwoTasksShareAPath

NoRepeatedLag(n_days) ==
    \A i, j \in DOMAIN n_days : i # j => n_days[i] # n_days[j]

C6_UniquePathsDistinctLags ==
    (args.parallel /\ NoRepeatedLag(args.n_days)) => NoTwoTasksShareAPath

\* two workers are writing their files at the same time
C6_Witness ==
    /\ args.parallel
    /\ NoRepeatedLag(args.n_days)
    /\ \E i, j \in DOMAIN task :
          i # j /\ task[i].st = "writing" /\ task[j].st = "writing"

(***************************************************************************)
(* C7: if a temp lag file's subject-id column differs from the survey's    *)
(* at any row position, run_pipeline raises the row-alignment error when   *)
(* it reads that file and the final output is never written.               *)
(***************************************************************************)
Misaligned ==
    {k \in DOMAIN temp_files : fs[temp_files[k]].ids # SurveyIds}

C7_RowAlignment ==
    ((pc = "merge" \/ merge_i > 0) /\ Misaligned # {}) =>
        /\ out = None
        /\ pc # "done"
        /\ merge_i <= MinOf(Misaligned)
        /\ merge_i = MinOf(Misaligned) =>
              pc = "raised" /\ error = "ValueError: Row order mismatch"

\* the second file read has one altered id and stopped the merge
C7_Witness ==
    /\ pc = "raised"
    /\ error = "ValueError: Row order mismatch"
    /\ merge_i = 2
    /\ fs[temp_files[2]].ids = <<101, 103>>
    /\ out = None

(***************************************************************************)
(* C23: in the parallel phase of process_multiple_lags_parallel, from the  *)
(* first submission to the end of the last task, no step reads into or     *)
(* changes the directory: its cache and geoid_filter stay as they were at  *)
(* the first submission, and the shared lag plan and contextual table are  *)
(* only read.                                                              *)
(***************************************************************************)
ParallelPhase ==
    /\ args.entry # "single_lag"
    /\ args.parallel
    /\ pc \in {"submit", "collect"}

C23_WorkersLeaveDirAlone ==
    [][ParallelPhase =>
          /\ UNCHANGED <<year_to_file, cache, geoid_filter, ctor_calls,
                         years_to_load, contextual_df, args>>
          /\ run_log'.sets = run_log.sets
          /\ run_log'.preloads = run_log.preloads]_vars

\* two tasks on a two-thread pool have ended, over a loaded directory
C23_Witness ==
    /\ ParallelPhase
    /\ pc = "collect"
    /\ AllCollected
    /\ Len(task) = 2
    /\ args.max_workers = 2
    /\ DOMAIN cache # {}
    /\ geoid_filter # None
    /\ contextual_df # None

(***************************************************************************)
(* C24: given that every per-lag join terminates,                          *)
(* process_multiple_lags_parallel, once it has begun to submit, eventually *)
(* returns, for any worker count >= 1 and any order of completion; by then *)
(* every submitted task was collected, each exactly once, and the returned *)
(* list holds at most one path per task.                                   *)
(***************************************************************************)
Collected == {i \in DOMAIN task : task[i].st = "collected"}

C24_ParallelTerminates ==
    /\ (pc = "submit") ~> (pc = "returned")
    /\ [](pc = "returned" => Collected = DOMAIN task)
    /\ [](Len(temp_files) <= Cardinality(Collected))
    /\ [][/\ Collected \subseteq Collected'
           /\ Cardinality(Collected') <= Cardinality(Collected) + 1
           /\ Len(temp_files') > Len(temp_files) => Collected' # Collected]_vars

\* a pool of one thread has worked off three lags, one of them without a
\* file, and the call has returned
C24_Witness ==
    /\ pc = "returned"
    /\ args.entry = "direct"
    /\ args.parallel
    /\ args.max_workers = 1
    /\ Len(task) = 3
    /\ Collected = DOMAIN task
    /\ Len(temp_files) = 2

(***************************************************************************)
(* C25: starting from an empty cache, process_multiple_lags_batch and      *)
(* process_multiple_lags_parallel materialize only years that are both in  *)
(* the required range (from the year of the earliest survey date minus the *)
(* largest lag to the year of the latest survey date) and available in the *)
(* directory: no wrapper is built for a year outside the range.            *)
(***************************************************************************)
InRequiredRange(y) ==
    LET dates == {Survey[i].date : i \in DOMAIN Survey}
    IN  /\ DayOfJan1(y + 1) > MinOf(dates) - MaxOf(Range(args.n_days))
        /\ DayOfJan1(y) <= MaxOf(dates)

C25_OnlyRequiredYearsLoaded ==
    args.entry # "single_lag" =>
        \A y \in YearInts :
            (ToString(y) \in DOMAIN cache \/ ctor_calls[ToString(y)] > 0) =>
                /\ ToString(y) \in DOMAIN year_to_file
                /\ InRequiredRange(y)

\* lag 0 only, over a directory that also has 2015 and 2017: 2016 alone was
\* materialized
C25_Witness ==
    /\ pc = "returned"
    /\ args.entry # "single_lag"
    /\ args.n_days = <<0>>
    /\ DOMAIN year_to_file = {"2015", "2016", "2017"}
    /\ DOMAIN cache = {"2016"}
    /\ ctor_calls["2015"] = 0
    /\ ctor_calls["2017"] = 0

(***************************************************************************)
(* C27: after process_multiple_lags_batch or _parallel has assigned the    *)
(* batch's GEOID set and preloaded, every wrapper in the concatenated      *)
(* contextual table was filtered with that set, whatever gets, preloads    *)
(* and filter assignments the collection saw before; so every source row   *)
(* with a GEOID the batch needs is in the table.                           *)
(***************************************************************************)
BatchGeoids == [set |-> ExtractUniqueGeoids(Survey)]

\* the rows of a year's source that the batch needs, normalized
NeededRows(key) ==
    {r \in Range(ZfillGeoids(ParseDates(YearFile(key).rows))) :
        r.geoid \in BatchGeoids.set}

HoldsNeededRows(w) == NeededRows(w.year) \subseteq Range(w.df)

C27_AllWrappersFiltered ==
    contextual_df # None =>
        \A i \in DOMAIN contextual_df.parts :
            /\ contextual_df.parts[i].geoid_filter = BatchGeoids
            /\ HoldsNeededRows(contextual_df.parts[i])

\* C27 as the code has it: the batch's preload filters the wrappers it
\* materializes with the batch's set and leaves the wrappers that were
\* cached before as they are; the contextual table is made of the cached
\* wrappers of years_to_load.
C27_FreshWrappersFiltered ==
    [][/\ (pc = "preload" /\ pc' = "concat") =>
            \A k \in Range(years_to_load) :
                IF k \in DOMAIN cache
                THEN cache'[k] = cache[k]
                ELSE /\ geoid_filter = BatchGeoids
                     /\ cache'[k].geoid_filter = BatchGeoids
                     /\ HoldsNeededRows(cache'[k])
       /\ (pc = "concat" /\ contextual_df' # None) =>
            contextual_df'.parts = [i \in DOMAIN years_to_load |-> cache[years_to_load[i]]]
      ]_vars

\* the table is made of a 2015 wrapper cached earlier under the allow-set
\* {GeoidA}, without the GeoidB row, and a 2016 wrapper of this batch
C27_Witness ==
    /\ contextual_df # None
    /\ Len(contextual_df.parts) = 2
    /\ contextual_df.parts[1].geoid_filter = [set |-> {GeoidA}]
    /\ ~HoldsNeededRows(contextual_df.parts[1])
    /\ contextual_df.parts[2].geoid_filter = BatchGeoids
    /\ HoldsNeededRows(contextual_df.parts[2])

(***************************************************************************)
(* C30: when none of the required years is available (years_to_load is     *)
(* empty), process_multiple_lags_batch and process_multiple_lags_parallel  *)
(* raise before any lag join starts and before any temp file is written;   *)
(* they do not return an empty list.                                       *)
(***************************************************************************)
NoYearToLoad ==
    /\ args.entry # "single_lag"
    /\ args.n_days # <<>>
    /\ YearsToLoad(ComputeRequiredYears(Survey, MaxOf(Range(args.n_days))),
                   year_to_file) = <<>>

C30_NoYearsRaises ==
    (NoYearToLoad /\ pc \notin {"start", "set_filter", "preload", "concat"}) =>
        /\ pc = "raised"
        /\ error = "ValueError: No objects to concatenate"
        /\ \A i \in DOMAIN task : task[i].st = "pending"
        /\ join_result = <<>>
        /\ fs = <<>>
        /\ temp_files = <<>>
        /\ run_log.returned = <<>>

\* a parallel call over a directory that has 2017 only has raised
C30_Witness ==
    /\ NoYearToLoad
    /\ args.parallel
    /\ DOMAIN year_to_file = {"2017"}
    /\ pc = "raised"
    /\ run_log.preloads = 1

=============================================================================
